---- MODULE Spec2Model ----
(***************************************************************************)
(* Model of filament's FView (src/filament/src/View.cpp): the per-frame     *)
(* preparation pipeline FView::prepare (light visibility job, renderable   *)
(* culling, shadow set-up, visibility masks, partition of the renderable   *)
(* SoA, per-renderable UBO upload).                                         *)
(*                                                                         *)
(* Encoding.  Bit fields (VISIBLE_MASK, layer masks) are sets of bit        *)
(* positions: `m & B` is `m \cap B`, `m | B` is `m \cup B`.  Iterators and   *)
(* indices are 0-based as in the source; row i of an SoA is data[i + 1].    *)
(***************************************************************************)
EXTENDS Integers, Sequences, FiniteSets

VARIABLES
    pc,                 \* position of the main thread inside FView::prepare
    jobState,           \* prepareVisibleLightsJob: "none" | "running" | "finished",
                        \* or the last step it has done when it runs step by step
    frame,              \* number of frames started
    mVisibleLayers,     \* FView::mVisibleLayers
    mCulling,           \* isFrustumCullingEnabled()
    mShadowingEnabled,  \* FView::mShadowingEnabled
    renderableData,     \* FScene::RenderableSoa
    lightData,          \* FScene::LightSoa
    sceneLights,        \* the light list as scene->prepare() produced it
    mVisibleRenderables,
    mVisibleDirectionalShadowCasters,
    mSpotLightShadowCasters,
    merged,             \* local `Range merged` of FView::prepare
    mRenderableUBOSize,
    mRenderableUbh,
    uboAllocs,          \* createBufferObject calls for mRenderableUbh in this frame
    uboUploads,         \* ranges handed to scene->updateUBOs in this frame
    mHasShadowing,
    mNeedsShadowMap,
    mShadowMapManager,  \* calls received by the shadow-map subsystem in this frame
    mIsDynamicResolutionSupported,
    mDynamicResolution, \* the DynamicResolutionOptions the view holds
    mViewport,
    mScale,
    mPidController,     \* the state of FView::mPidController
    roundedScale,       \* what the last call of updateScale returned
    scaleUpdates,       \* number of calls of updateScale so far
    mActivePickingQueriesList, \* the queued queries, head first
    pickingQueries,     \* every FPickingQuery obtained so far, by number
    readPixels,         \* the readbacks handed to the driver and not completed yet
    callbackLog,        \* the callback invocations so far, in order
    terminated          \* FView::terminate has run

vars == << pc, jobState, frame, mVisibleLayers, mCulling, mShadowingEnabled,
           renderableData, lightData, sceneLights,
           mVisibleRenderables, mVisibleDirectionalShadowCasters,
           mSpotLightShadowCasters, merged,
           mRenderableUBOSize, mRenderableUbh, uboAllocs, uboUploads,
           mHasShadowing, mNeedsShadowMap, mShadowMapManager,
           mIsDynamicResolutionSupported, mDynamicResolution, mViewport, mScale,
           mPidController, roundedScale, scaleUpdates,
           mActivePickingQueriesList, pickingQueries, readPixels, callbackLog, terminated >>

viewConfig == << mVisibleLayers, mCulling, mShadowingEnabled >>
ranges == << mVisibleRenderables, mVisibleDirectionalShadowCasters,
             mSpotLightShadowCasters, merged >>
ubo == << mRenderableUBOSize, mRenderableUbh, uboAllocs, uboUploads >>
shadowFlags == << mHasShadowing, mNeedsShadowMap, mShadowMapManager >>
lights == << lightData, sceneLights >>
resolution == << mIsDynamicResolutionSupported, mDynamicResolution, mViewport, mScale,
                mPidController, roundedScale, scaleUpdates >>
picking == << mActivePickingQueriesList, pickingQueries, readPixels, callbackLog, terminated >>
\* everything FView::prepare works on
frameState == << pc, jobState, frame, viewConfig, renderableData, lights, ranges, ubo,
                shadowFlags >>

(***************************************************************************)
(* Bounds of the model.                                                    *)
(***************************************************************************)
\* largest number of renderables scene->prepare() puts into the SoA
MaxRenderables == 3
\* largest number of positional lights scene->prepare() puts into the SoA
MaxLights == 4
\* camera-space distances of the lights are drawn from 1..MaxDistance
MaxDistance == 2
\* frames prepared in one behaviour
MaxFrames == 1
\* largest number of positional lights, and frames prepared, where the frame
\* runs through the shadow set-up with lights that cast shadows
MaxShadowLights == 3
MaxShadowFrames == 2
\* largest numbers of positional lights and of renderables where the light
\* job and the main thread run step by step
MaxJobLights == 3
MaxJobRenderables == 2
\* largest merged range where the buffer update is run on its own
MaxUboRenderables == 24
\* rows of the array computeVisibilityMasks is applied to on its own
MaxMaskRows == 1
\* Scaled-down instances of the engine's configuration constants (the
\* engine uses 256 lights; the model keeps the cap below MaxLights so that
\* the cap is exceeded).
CONFIG_MAX_LIGHT_COUNT == 2
CONFIG_MAX_SHADOW_CASTING_SPOTS == 1

(***************************************************************************)
(* Program constants.                                                      *)
(***************************************************************************)
DIRECTIONAL_LIGHTS_COUNT == 1
VISIBLE_RENDERABLE_BIT == 0
VISIBLE_DIR_SHADOW_RENDERABLE_BIT == 1
\* sizeof(PerRenderableUib): both sides of every comparison are multiples of it
SizeofPerRenderableUib == 4
MinUboCount == 16

VISIBLE_RENDERABLE == {VISIBLE_RENDERABLE_BIT}
VISIBLE_DIR_SHADOW_RENDERABLE == {VISIBLE_DIR_SHADOW_RENDERABLE_BIT}
VISIBLE_SPOT_SHADOW_RENDERABLE_N_BIT(j) == j + 2
VISIBLE_SPOT_SHADOW_RENDERABLE_N(j) == {VISIBLE_SPOT_SHADOW_RENDERABLE_N_BIT(j)}
VISIBLE_SPOT_SHADOW_RENDERABLE ==
    {VISIBLE_SPOT_SHADOW_RENDERABLE_N_BIT(j) : j \in 0..(CONFIG_MAX_SHADOW_CASTING_SPOTS - 1)}
MaskBits == VISIBLE_RENDERABLE \cup VISIBLE_DIR_SHADOW_RENDERABLE
                \cup VISIBLE_SPOT_SHADOW_RENDERABLE

Max(a, b) == IF a >= b THEN a ELSE b
Min(a, b) == IF a <= b THEN a ELSE b

Range(first, last) == [first |-> first, last |-> last]
RangeSize(r) == r.last - r.first
RangeIndices(r) == r.first .. (r.last - 1)

(***************************************************************************)
(* Inputs: what the scene, the cullers and the API callers can supply.     *)
(***************************************************************************)
\* two layer bits stand for the eight of the uint8_t layer mask
LayerBits == {0, 1}

\* what scene->prepare() copies into one row of FScene::RenderableSoa
\* the kinds of renderable the frame specification draws its scenes from
RenderableInputs ==
    { [ layers |-> {0}, culling |-> TRUE,  castShadows |-> TRUE ],
      [ layers |-> {0}, culling |-> TRUE,  castShadows |-> FALSE ],
      [ layers |-> {1}, culling |-> FALSE, castShadows |-> TRUE ] }

RenderableRow(i, in) ==
    [ instance |-> i, layers |-> in.layers, culling |-> in.culling,
      castShadows |-> in.castShadows, mask |-> {} ]

RenderableScenes(n) ==
    { [ i \in 1..n |-> RenderableRow(i, f[i]) ] : f \in [1..n -> RenderableInputs] }

\* the directional light, always row 0 of FScene::LightSoa; isValid is the
\* truth value of the row's FLightManager::Instance
DirectionalLights ==
    [ instance : {0}, isValid : {TRUE}, visibility : {TRUE}, sphereInFrustum : BOOLEAN,
      isLightCaster : {TRUE}, intensity : {1}, isSpotLight : {FALSE},
      coneSeparated : {FALSE}, isShadowCaster : BOOLEAN, distance : {0} ]

\* what scene->prepare() copies into one positional row of FScene::LightSoa.
\* sphereInFrustum is the outcome of the sphere/frustum test of the row,
\* coneSeparated the outcome of the six-plane cone test of a spot light, and
\* distance the length computeLightCameraDistances computes for the row.
\* The filter loop reads the attributes in the order sphere test, light
\* caster, intensity, spot light, cone test and stops at the first that
\* rejects the row; an attribute it does not read keeps its passing value,
\* and the distance is read for the rows that survive only.
PositionalInputs ==
    { l \in [ sphereInFrustum : BOOLEAN, isLightCaster : BOOLEAN, intensity : {0, 1},
              isSpotLight : BOOLEAN, coneSeparated : BOOLEAN,
              distance : 1..MaxDistance ] :
        /\ (~l.sphereInFrustum => l.isLightCaster /\ l.intensity > 0)
        /\ (~l.isLightCaster => l.intensity > 0)
        /\ (~(l.sphereInFrustum /\ l.isLightCaster /\ l.intensity > 0) => ~l.isSpotLight)
        /\ (l.coneSeparated => l.isSpotLight)
        /\ (l.distance # 1 =>
                l.sphereInFrustum /\ l.isLightCaster /\ l.intensity > 0
                    /\ ~l.coneSeparated) }

PositionalRow(i, in) ==
    [ instance |-> i, isValid |-> TRUE, visibility |-> TRUE,
      sphereInFrustum |-> in.sphereInFrustum,
      isLightCaster |-> in.isLightCaster, intensity |-> in.intensity,
      isSpotLight |-> in.isSpotLight, coneSeparated |-> in.coneSeparated,
      isShadowCaster |-> FALSE, distance |-> in.distance ]

\* light lists with n positional lights behind the directional one
LightScenes(n) ==
    { << d >> \o [ i \in 1..n |-> PositionalRow(i, f[i]) ] :
        d \in { l \in DirectionalLights : ~l.isShadowCaster },
        f \in [1..n -> PositionalInputs] }

\* The positional lights of the scenes that exercise prepareShadowing.  Its
\* loop reads the instance, isShadowCaster and isSpotLight, in that order,
\* and skips the row at the first that fails; an attribute it does not read
\* keeps the value of a shadow-casting spot light.  A row the sphere test
\* rejects never reaches the loop.
ShadowLightInputs ==
    { l \in [ sphereInFrustum : BOOLEAN, isValid : BOOLEAN, isShadowCaster : BOOLEAN,
              isSpotLight : BOOLEAN, distance : 1..MaxDistance ] :
        /\ (~l.sphereInFrustum => l.isValid /\ l.isShadowCaster)
        /\ (~l.isValid => l.isShadowCaster)
        /\ (~(l.sphereInFrustum /\ l.isValid /\ l.isShadowCaster) => l.isSpotLight)
        /\ (~l.isShadowCaster => l.isSpotLight)
        /\ (l.distance # 1 =>
                l.sphereInFrustum /\ l.isValid /\ l.isShadowCaster /\ l.isSpotLight) }

ShadowLightRow(i, in) ==
    [ instance |-> i, isValid |-> in.isValid, visibility |-> TRUE,
      sphereInFrustum |-> in.sphereInFrustum,
      isLightCaster |-> TRUE, intensity |-> 1,
      isSpotLight |-> in.isSpotLight, coneSeparated |-> FALSE,
      isShadowCaster |-> in.isShadowCaster, distance |-> in.distance ]

\* light lists with n such lights behind a directional light
ShadowLightScenes(n) ==
    { << d >> \o [ i \in 1..n |-> ShadowLightRow(i, f[i]) ] :
        d \in { l \in DirectionalLights : l.sphereInFrustum },
        f \in [1..n -> ShadowLightInputs] }

\* The scenes on which the light job and the renderable culling are
\* interleaved.  The lights are the point lights of PositionalInputs: one the
\* sphere test rejects, one the filter loop rejects, and lights that stay,
\* at different distances.
JobLightScenes(n) ==
    { << d >> \o [ i \in 1..n |-> PositionalRow(i, f[i]) ] :
        d \in { l \in DirectionalLights : l.sphereInFrustum /\ ~l.isShadowCaster },
        f \in [1..n -> { l \in PositionalInputs : ~l.isSpotLight /\ l.isLightCaster }] }

\* The renderables carry the outcome of their AABB/frustum test
\* (aabbInFrustum) and, in the mask, what the previous frame left there.
JobRenderableRow(i, in) ==
    [ instance |-> i, layers |-> {0}, culling |-> TRUE, castShadows |-> TRUE,
      mask |-> in.mask, aabbInFrustum |-> in.aabbInFrustum ]

JobRenderableScenes(n) ==
    { [ i \in 1..n |-> JobRenderableRow(i, f[i]) ] :
        f \in [1..n -> [ mask : {{}, MaskBits}, aabbInFrustum : BOOLEAN ]] }

\* the rows Culler::intersects finds inside the frustum
FrustumHits(data) == { i \in 0 .. (Len(data) - 1) : data[i + 1].aabbInFrustum }

\* what ShadowMapManager::update can report
ShadowTechniques == SUBSET {"SHADOW_MAP", "SCREEN_SPACE"}

NoShadowMapCalls == [reset |-> 0, cascades |-> 0, spots |-> << >>, update |-> 0]

(***************************************************************************)
(* Dynamic resolution: setViewport, setDynamicResolutionOptions and        *)
(* updateScale.  A float is an integer count of 1/ScaleUnit (scales and    *)
(* options) or of 1/PidUnit (the quantities of the PID controller); a      *)
(* product, quotient or square root is rounded down to the unit.           *)
(***************************************************************************)
\* the resolution of the fixed-point scales: float2(1.0f / 1024.0f) is one unit
ScaleUnit == 1024
\* the resolution of the controller's quantities: PID_CONTROLLER_Ki is 2 units
PidUnit == 1000
PID_CONTROLLER_Ki == 2
PID_CONTROLLER_Kd == 0
\* setIntegralLimits(-100.0f, 100.0f)
IntegralLimit == 100
\* setOutputDeadBand(-0.01f, 0.05f), in units of 1/PidUnit
DeadBandLow == -10
DeadBandHigh == 50
\* 1.0f - std::exp(-1.0f / 8.0f), in units of 1/PidUnit
DefaultKp == 118

Float2(x, y) == [ x |-> x, y |-> y ]
OneScale == Float2(ScaleUnit, ScaleUnit)
Max2(u, v) == Float2(Max(u.x, v.x), Max(u.y, v.y))
Min2(u, v) == Float2(Min(u.x, v.x), Min(u.y, v.y))
\* math::clamp(v, min, max) is min(max, max(min, v))
Clamp(v, lo, hi) == Min(hi, Max(lo, v))
Clamp2(v, lo, hi) == Min2(hi, Max2(lo, v))
Mul(a, b) == (a * b) \div ScaleUnit
Div(a, b) == (a * ScaleUnit) \div b

RECURSIVE ISqrtBetween(_, _, _)
\* the largest r in lo..hi with r * r <= n, by bisection
ISqrtBetween(n, lo, hi) == IF lo >= hi THEN lo ELSE LET mid == (lo + hi + 1) \div 2 IN IF mid * mid <= n THEN ISqrtBetween(n, mid, hi) ELSE ISqrtBetween(n, lo, mid - 1)

\* std::sqrt of a scale
Sqrt(a) == ISqrtBetween(a * ScaleUnit, 0, 4 * ScaleUnit)

\* a returned scale factor, kept exact as a fraction
Ratio(num, den) == [ num |-> num, den |-> den ]
AsReturned(v) == [ x |-> Ratio(v.x, ScaleUnit), y |-> Ratio(v.y, ScaleUnit) ]

\* View::DynamicResolutionOptions as default-constructed
DefaultDynamicResolutionOptions == [ enabled |-> FALSE, homogeneousScaling |-> FALSE, minScale |-> Float2(ScaleUnit \div 2, ScaleUnit \div 2), maxScale |-> OneScale, sharpness |-> (9 * ScaleUnit) \div 10 ]

DefaultViewport == [ width |-> 1920, height |-> 1080 ]
Viewports == { [ width |-> 1920, height |-> 1080 ], [ width |-> 1080, height |-> 1920 ], [ width |-> 1000, height |-> 1000 ] }

\* the dynamic-resolution members of a view once constructed and given a viewport
ConstructedResolution(supported, viewport) ==
    /\ mIsDynamicResolutionSupported = supported
    /\ mDynamicResolution = DefaultDynamicResolutionOptions
    /\ mViewport = viewport
    /\ mScale = OneScale
    /\ mPidController = [ integral |-> 0, lastError |-> 0, derivative |-> 0, integralInhibition |-> FALSE ]
    /\ roundedScale = AsReturned(OneScale)
    /\ scaleUpdates = 0

\* View.cpp:136-151, the options as setDynamicResolutionOptions stores them
SanitizedOptions(options, supported) ==
    LET enabled == options.enabled /\ supported
        minScale == Max2(options.minScale, Float2(ScaleUnit \div 1024, ScaleUnit \div 1024))
        maxScale == Min2(Max2(options.maxScale, minScale), Float2(2 * ScaleUnit, 2 * ScaleUnit))
    IN  IF enabled
        THEN [ options EXCEPT !.minScale = minScale, !.maxScale = maxScale, !.sharpness = Clamp(@, 0, 2 * ScaleUnit) ]
        ELSE [ options EXCEPT !.enabled = FALSE ]

setDynamicResolutionOptions(options) ==
    /\ pc = "idle"
    /\ mDynamicResolution' = SanitizedOptions(options, mIsDynamicResolutionSupported)
    /\ UNCHANGED << picking, frameState, mIsDynamicResolutionSupported, mViewport, mScale, mPidController, roundedScale, scaleUpdates >>

\* PIDController::update(measure, 1.0f, 1.0f): the output and the state it leaves
PidUpdate(pid, Kp, measure) ==
    LET error == PidUnit - measure
        integral == IF pid.integralInhibition THEN pid.integral ELSE Clamp(pid.integral + error, -(IntegralLimit * PidUnit), IntegralLimit * PidUnit)
        derivative == error - pid.lastError
        out == (Kp * error + PID_CONTROLLER_Ki * integral + PID_CONTROLLER_Kd * derivative) \div PidUnit
    IN  [ out |-> IF out > DeadBandLow /\ out < DeadBandHigh THEN 0 ELSE out, state |-> [ pid EXCEPT !.integral = integral, !.lastError = error, !.derivative = derivative ] ]

\* View.cpp:195, the relative scale a controller output commands
ScaleCommand(out) == IF out < 0 THEN (ScaleUnit * PidUnit) \div (PidUnit - out) ELSE ScaleUnit + (out * ScaleUnit) \div PidUnit

\* the split with both axes always scaled alike
ScaledAxesAlike(scale, homogeneousScaling, viewport) == Float2(Sqrt(scale), Sqrt(scale))

\* View.cpp:209-234, the area scale split over the two axes
ScaledAxes(scale, homogeneousScaling, viewport) ==
    LET w == viewport.width
        h == viewport.height
        major == Max(w, h)
        minor == Min(w, h)
        maxMajorScale == (minor * ScaleUnit) \div major
        majorScale == Max(scale, maxMajorScale)
        minorScale == Max(Div(scale, majorScale), Mul(majorScale, maxMajorScale))
        homogeneousScale == Div(scale, Mul(majorScale, minorScale))
        majorRef == Mul(Sqrt(homogeneousScale), majorScale)
        minorRef == Mul(Sqrt(homogeneousScale), minorScale)
    IN  IF scale < ScaleUnit /\ ~homogeneousScaling
        THEN IF w > h THEN Float2(majorRef, minorRef) ELSE Float2(minorRef, majorRef)
        ELSE Float2(Sqrt(scale), Sqrt(scale))

\* View.cpp:247-248, one axis of the returned scale
RoundedAxis(s, dim) == IF s = ScaleUnit THEN Ratio(1, 1) ELSE Ratio(((s * dim) \div (8 * ScaleUnit)) * 8, dim)

\* View.cpp:171, the scale an invalid frame sample leaves
InvalidSampleScale(options) == Clamp2(OneScale, options.minScale, options.maxScale)

\* updateScale with an inhibition that, once set, stays set
updateScaleLatching(valid, measure, Kp) ==
    /\ pc = "idle"
    /\ LET options == mDynamicResolution IN
       IF options.enabled
       THEN IF ~valid
            THEN /\ mScale' = InvalidSampleScale(options)
                 /\ roundedScale' = AsReturned(mScale')
                 /\ UNCHANGED mPidController
            ELSE LET pid == PidUpdate(mPidController, Kp, measure)
                     command == ScaleCommand(pid.out)
                     scale == Mul(Mul(mScale.x, mScale.y), command)
                     s == ScaledAxes(scale, options.homogeneousScaling, mViewport)
                 IN  /\ mScale' = Clamp2(s, options.minScale, options.maxScale)
                     /\ mPidController' = [ pid.state EXCEPT !.integralInhibition = (mPidController.integralInhibition \/ mScale' # s) ]
                     /\ roundedScale' = [ x |-> RoundedAxis(mScale'.x, mViewport.width), y |-> RoundedAxis(mScale'.y, mViewport.height) ]
       ELSE /\ mScale' = OneScale
            /\ roundedScale' = [ x |-> Ratio(1, 1), y |-> Ratio(1, 1) ]
            /\ UNCHANGED mPidController
    /\ UNCHANGED << picking, frameState, mIsDynamicResolutionSupported, mDynamicResolution, mViewport >>

updateScale(valid, measure, Kp) ==
    /\ pc = "idle"
    /\ LET options == mDynamicResolution IN
       IF options.enabled
       THEN IF ~valid
            THEN /\ mScale' = InvalidSampleScale(options)
                 /\ roundedScale' = AsReturned(mScale')
                 /\ UNCHANGED mPidController
            ELSE LET pid == PidUpdate(mPidController, Kp, measure)
                     command == ScaleCommand(pid.out)
                     scale == Mul(Mul(mScale.x, mScale.y), command)
                     s == ScaledAxes(scale, options.homogeneousScaling, mViewport)
                 IN  /\ mScale' = Clamp2(s, options.minScale, options.maxScale)
                     /\ mPidController' = [ pid.state EXCEPT !.integralInhibition = (mScale' # s) ]
                     /\ roundedScale' = [ x |-> RoundedAxis(mScale'.x, mViewport.width), y |-> RoundedAxis(mScale'.y, mViewport.height) ]
       ELSE /\ mScale' = OneScale
            /\ roundedScale' = [ x |-> Ratio(1, 1), y |-> Ratio(1, 1) ]
            /\ UNCHANGED mPidController
    /\ UNCHANGED << picking, frameState, mIsDynamicResolutionSupported, mDynamicResolution, mViewport >>

(***************************************************************************)
(* Picking queries: pick, executePickingQueries, the readback callback the *)
(* driver invokes, and terminate.  A query is known by its number.         *)
(***************************************************************************)
MaxPickingQueries == 3
PickCoordinates == { [ x |-> 0, y |-> 0 ], [ x |-> 640, y |-> 360 ] }
\* the structure-buffer scale executePickingQueries is given
StructureScales == { ScaleUnit \div 2, ScaleUnit }

ConstructedPicking ==
    /\ mActivePickingQueriesList = << >>
    /\ pickingQueries = << >>
    /\ readPixels = << >>
    /\ callbackLog = << >>
    /\ terminated = FALSE

\* FView::pick: a new query is linked in at the head of the list
pick(x, y) ==
    /\ pc = "idle"
    /\ ~terminated
    /\ Len(pickingQueries) < MaxPickingQueries
    /\ pickingQueries' = Append(pickingQueries, [ x |-> x, y |-> y ])
    /\ mActivePickingQueriesList' = << Len(pickingQueries) + 1 >> \o mActivePickingQueriesList
    /\ UNCHANGED << readPixels, callbackLog, terminated, frameState, resolution >>

\* View.cpp:905-918, the readback issued for one query
ReadPixelsCommand(pQuery, scale) == [ query |-> pQuery, x |-> (pickingQueries[pQuery].x * Mul(scale, mScale.x)) \div ScaleUnit, y |-> (pickingQueries[pQuery].y * Mul(scale, mScale.y)) \div ScaleUnit ]

RECURSIVE ExecuteLoop(_, _, _)
\* View.cpp:900-919: << the list, the readbacks issued >> when the loop ends
ExecuteLoop(list, issued, scale) == IF list = << >> THEN << list, issued >> ELSE ExecuteLoop(Tail(list), Append(issued, ReadPixelsCommand(Head(list), scale)), scale)

executePickingQueries(scale) ==
    /\ pc = "idle"
    /\ ~terminated
    /\ mActivePickingQueriesList' = ExecuteLoop(mActivePickingQueriesList, readPixels, scale)[1]
    /\ readPixels' = ExecuteLoop(mActivePickingQueriesList, readPixels, scale)[2]
    /\ UNCHANGED << pickingQueries, callbackLog, terminated, frameState, resolution >>

\* View.cpp:911-917: the driver completes a readback and invokes the query's callback
CompleteReadback(i) ==
    /\ i \in 1 .. Len(readPixels)
    /\ callbackLog' = Append(callbackLog, [ query |-> readPixels[i].query, by |-> "readback" ])
    /\ readPixels' = SubSeq(readPixels, 1, i - 1) \o SubSeq(readPixels, i + 1, Len(readPixels))
    /\ UNCHANGED << mActivePickingQueriesList, pickingQueries, terminated, frameState, resolution >>

RECURSIVE TerminateLoop(_, _)
\* View.cpp:108-113: << the list, the callbacks invoked >> when the loop ends
TerminateLoop(list, log) == IF list = << >> THEN << list, log >> ELSE TerminateLoop(Tail(list), Append(log, [ query |-> Head(list), by |-> "terminate" ]))

\* terminate leaving the queued queries uncalled
terminateDroppingQueries ==
    /\ pc = "idle"
    /\ ~terminated
    /\ mActivePickingQueriesList' = << >>
    /\ terminated' = TRUE
    /\ UNCHANGED << pickingQueries, readPixels, callbackLog, frameState, resolution >>

\* FView::terminate; the buffers it destroys are the driver's, the members keep their handles
terminate ==
    /\ pc = "idle"
    /\ ~terminated
    /\ mActivePickingQueriesList' = TerminateLoop(mActivePickingQueriesList, callbackLog)[1]
    /\ callbackLog' = TerminateLoop(mActivePickingQueriesList, callbackLog)[2]
    /\ terminated' = TRUE
    /\ UNCHANGED << pickingQueries, readPixels, frameState, resolution >>

(***************************************************************************)
(* Construction (FView::FView) and the setters.                            *)
(***************************************************************************)
\* the members FView::prepare works on, as the constructor leaves them
ConstructedView ==
    /\ pc = "idle"
    /\ jobState = "none"
    /\ frame = 0
    /\ mVisibleLayers = {0}
    /\ mCulling = TRUE
    /\ mShadowingEnabled = TRUE
    /\ renderableData = << >>
    /\ lightData = << >>
    /\ sceneLights = << >>
    /\ mVisibleRenderables = Range(0, 0)
    /\ mVisibleDirectionalShadowCasters = Range(0, 0)
    /\ mSpotLightShadowCasters = Range(0, 0)
    /\ merged = Range(0, 0)
    /\ mRenderableUBOSize = 0
    /\ mRenderableUbh = "null"
    /\ uboAllocs = 0
    /\ uboUploads = << >>
    /\ mHasShadowing = FALSE
    /\ mNeedsShadowMap = FALSE
    /\ mShadowMapManager = NoShadowMapCalls

Init == ConstructedView /\ ConstructedResolution(TRUE, DefaultViewport) /\ ConstructedPicking

setVisibleLayers(select, values) ==
    /\ pc = "idle"
    /\ mVisibleLayers' = (mVisibleLayers \ select) \cup (values \cap select)
    /\ UNCHANGED << picking, resolution, pc, jobState, frame, mCulling, mShadowingEnabled, renderableData,
                    lights, ranges, ubo, shadowFlags >>

setFrustumCullingEnabled(culling) ==
    /\ pc = "idle"
    /\ mCulling' = culling
    /\ UNCHANGED << picking, resolution, pc, jobState, frame, mVisibleLayers, mShadowingEnabled,
                    renderableData, lights, ranges, ubo, shadowFlags >>

setShadowingEnabled(enabled) ==
    /\ pc = "idle"
    /\ mShadowingEnabled' = enabled
    /\ UNCHANGED << picking, resolution, pc, jobState, frame, mVisibleLayers, mCulling,
                    renderableData, lights, ranges, ubo, shadowFlags >>

(***************************************************************************)
(* FView::prepare, step by step.                                           *)
(***************************************************************************)
\* scene->prepare(worldOriginScene, hasVSM()): the scene refreshes both SoAs
ScenePrepare(rows, ls) ==
    /\ pc = "idle"
    /\ frame' = frame + 1
    /\ renderableData' = rows
    /\ lightData' = ls
    /\ sceneLights' = ls
    /\ uboAllocs' = 0
    /\ uboUploads' = << >>
    /\ mShadowMapManager' = NoShadowMapCalls
    /\ pc' = "fork"
    /\ UNCHANGED << picking, resolution, jobState, viewConfig, ranges, mRenderableUBOSize, mRenderableUbh,
                    mHasShadowing, mNeedsShadowMap >>

\* the light job is created only when there is a positional light
StartLightJob ==
    /\ pc = "fork"
    /\ Len(lightData) > DIRECTIONAL_LIGHTS_COUNT
    /\ jobState' = "running"
    /\ pc' = "cull"
    /\ UNCHANGED << picking, resolution, frame, viewConfig, renderableData, lights, ranges, ubo, shadowFlags >>

SkipLightJob ==
    /\ pc = "fork"
    /\ ~(Len(lightData) > DIRECTIONAL_LIGHTS_COUNT)
    /\ jobState' = "none"
    /\ pc' = "cull"
    /\ UNCHANGED << picking, resolution, frame, viewConfig, renderableData, lights, ranges, ubo, shadowFlags >>

\* Culler::intersects writes the result of one test into bit `bit` of a mask
CullerIntersects(mask, hit, bit) ==
    IF hit THEN mask \cup {bit} ELSE mask \ {bit}

\* FView::prepareVisibleRenderables on an already zero-filled mask array
prepareVisibleRenderables(data, hits) ==
    [ i \in 1..Len(data) |->
        [ data[i] EXCEPT !.mask =
            IF mCulling
            THEN CullerIntersects(data[i].mask, (i - 1) \in hits, VISIBLE_RENDERABLE_BIT)
            ELSE VISIBLE_RENDERABLE ] ]

ZeroFill(data) == [ i \in 1..Len(data) |-> [ data[i] EXCEPT !.mask = {} ] ]

\* std::uninitialized_fill(cullingMask, 0); prepareVisibleRenderables(...)
CullRenderables(hits) ==
    /\ pc = "cull"
    /\ renderableData' = prepareVisibleRenderables(ZeroFill(renderableData), hits)
    /\ pc' = "join"
    /\ UNCHANGED << picking, resolution, jobState, frame, viewConfig, lights, ranges, ubo, shadowFlags >>

\* The same two statements as separate steps of the main thread.
FillCullingMaskAndLights ==
    /\ pc = "cull"
    /\ renderableData' = ZeroFill(renderableData)
    /\ lightData' = [ i \in 1..Len(lightData) |->
                        [ lightData[i] EXCEPT !.visibility = FALSE ] ]
    /\ pc' = "culling"
    /\ UNCHANGED << picking, resolution, jobState, frame, viewConfig, sceneLights, ranges, ubo, shadowFlags >>

\* std::uninitialized_fill(cullingMask.begin(), cullingMask.end(), 0)
FillCullingMask ==
    /\ pc = "cull"
    /\ renderableData' = ZeroFill(renderableData)
    /\ pc' = "culling"
    /\ UNCHANGED << picking, resolution, jobState, frame, viewConfig, lights, ranges, ubo, shadowFlags >>

\* prepareVisibleRenderables(js, mCullingFrustum, renderableData)
PrepareVisibleRenderables(hits) ==
    /\ pc = "culling"
    /\ renderableData' = prepareVisibleRenderables(renderableData, hits)
    /\ pc' = "join"
    /\ UNCHANGED << picking, resolution, jobState, frame, viewConfig, lights, ranges, ubo, shadowFlags >>

ReleaseWithoutWaiting ==
    /\ pc = "join"
    /\ jobState' = IF jobState = "finished" THEN "none" ELSE jobState
    /\ pc' = "shadowing"
    /\ UNCHANGED << picking, resolution, frame, viewConfig, renderableData, lights, ranges, ubo, shadowFlags >>

\* js.waitAndRelease(prepareVisibleLightsJob), only if the job was started
WaitAndRelease ==
    /\ pc = "join"
    /\ jobState \in {"none", "finished"}
    /\ jobState' = "none"
    /\ pc' = "shadowing"
    /\ UNCHANGED << picking, resolution, frame, viewConfig, renderableData, lights, ranges, ubo, shadowFlags >>

RECURSIVE FindShadowCastingSpotsNoBreak(_, _, _)
FindShadowCastingSpotsNoBreak(ld, l, spots) ==
    IF ~(l < Len(ld)) THEN spots
    ELSE IF ~ld[l + 1].isValid THEN FindShadowCastingSpotsNoBreak(ld, l + 1, spots)
    ELSE IF ~ld[l + 1].isShadowCaster THEN FindShadowCastingSpotsNoBreak(ld, l + 1, spots)
    ELSE IF ~ld[l + 1].isSpotLight THEN FindShadowCastingSpotsNoBreak(ld, l + 1, spots)
    ELSE FindShadowCastingSpotsNoBreak(ld, l + 1, Append(spots, l))

\* the loop of prepareShadowing over the positional lights: `l` is the loop
\* index, `spots` the indices handed to addSpotShadowMap so far
RECURSIVE FindShadowCastingSpots(_, _, _)
FindShadowCastingSpots(ld, l, spots) ==
    IF ~(l < Len(ld)) THEN spots
    ELSE IF ~ld[l + 1].isValid THEN FindShadowCastingSpots(ld, l + 1, spots)
    ELSE IF ~ld[l + 1].isShadowCaster THEN FindShadowCastingSpots(ld, l + 1, spots)
    ELSE IF ~ld[l + 1].isSpotLight THEN FindShadowCastingSpots(ld, l + 1, spots)
    ELSE IF Len(spots) + 1 > CONFIG_MAX_SHADOW_CASTING_SPOTS - 1
         THEN Append(spots, l)
         ELSE FindShadowCastingSpots(ld, l + 1, Append(spots, l))

PrepareShadowingKeepingFlags(technique, casters) ==
    /\ pc = "shadowing"
    /\ pc' = "masks"
    /\ IF ~mShadowingEnabled
       THEN UNCHANGED << renderableData, shadowFlags >>
       ELSE /\ mShadowMapManager' =
                [ reset    |-> 1,
                  cascades |-> IF lightData[1].isValid /\ lightData[1].isShadowCaster
                                    THEN 1 ELSE 0,
                  spots    |-> FindShadowCastingSpots(lightData,
                                    DIRECTIONAL_LIGHTS_COUNT, << >>),
                  update   |-> 1 ]
            /\ renderableData' =
                [ i \in 1..Len(renderableData) |->
                    [ renderableData[i] EXCEPT !.mask = @ \cup casters[i - 1] ] ]
            /\ mHasShadowing' = (technique # {})
            /\ mNeedsShadowMap' = ("SHADOW_MAP" \in technique)
    /\ UNCHANGED << picking, resolution, jobState, frame, viewConfig, lights, ranges, ubo >>

\* FView::prepareShadowing.  ShadowMapManager::update is an external
\* collaborator: it reports a technique and culls the shadow casters, i.e.
\* it writes the directional and spot shadow bits of the masks (`casters`).
PrepareShadowing(technique, casters) ==
    /\ pc = "shadowing"
    /\ pc' = "masks"
    /\ IF ~mShadowingEnabled
       THEN /\ mHasShadowing' = FALSE
            /\ mNeedsShadowMap' = FALSE
            /\ UNCHANGED << renderableData, mShadowMapManager >>
       ELSE /\ mShadowMapManager' =
                [ reset    |-> 1,
                  cascades |-> IF lightData[1].isValid /\ lightData[1].isShadowCaster
                                    THEN 1 ELSE 0,
                  spots    |-> FindShadowCastingSpots(lightData,
                                    DIRECTIONAL_LIGHTS_COUNT, << >>),
                  update   |-> 1 ]
            /\ renderableData' =
                [ i \in 1..Len(renderableData) |->
                    [ renderableData[i] EXCEPT !.mask = @ \cup casters[i - 1] ] ]
            /\ mHasShadowing' = (technique # {})
            /\ mNeedsShadowMap' = ("SHADOW_MAP" \in technique)
    /\ UNCHANGED << picking, resolution, jobState, frame, viewConfig, lights, ranges, ubo >>

(***************************************************************************)
(* FView::computeVisibilityMasks, one element of the loop.                 *)
(***************************************************************************)
inVisibleLayer(visibleLayers, layers) == (layers \cap visibleLayers) # {}

visRenderablesNoLayer(v, mask, inLayer) ==
    (~v.culling \/ (mask \cap VISIBLE_RENDERABLE) # {})

visRenderables(v, mask, inLayer) ==
    (~v.culling \/ (mask \cap VISIBLE_RENDERABLE) # {}) /\ inLayer

visShadowParticipant(v) == v.castShadows

visShadowRenderableFromRenderable(v, mask, inLayer) ==
    visRenderables(v, mask, inLayer) /\ visShadowParticipant(v)

visShadowRenderable(v, mask, inLayer) ==
    (~v.culling \/ (mask \cap VISIBLE_DIR_SHADOW_RENDERABLE) # {})
        /\ inLayer /\ visShadowParticipant(v)

visSpotShadowRenderable(v, mask, inLayer, j) ==
    (~v.culling \/ (mask \cap VISIBLE_SPOT_SHADOW_RENDERABLE_N(j)) # {})
        /\ inLayer /\ visShadowParticipant(v)

\* the value stored into visibleMask[i]; v is the row's Visibility
VisibilityMask(visibleLayers, layers, v, mask) ==
    LET inLayer == inVisibleLayer(visibleLayers, layers)
    IN  (IF visRenderables(v, mask, inLayer) THEN VISIBLE_RENDERABLE ELSE {})
        \cup (IF visShadowRenderable(v, mask, inLayer)
                THEN VISIBLE_DIR_SHADOW_RENDERABLE ELSE {})
        \cup UNION { IF visSpotShadowRenderable(v, mask, inLayer, j)
                        THEN VISIBLE_SPOT_SHADOW_RENDERABLE_N(j) ELSE {}
                     : j \in 0..(CONFIG_MAX_SHADOW_CASTING_SPOTS - 1) }

computeVisibilityMasks(visibleLayers, data) ==
    [ i \in 1..Len(data) |->
        [ data[i] EXCEPT !.mask =
            VisibilityMask(visibleLayers, data[i].layers, data[i], data[i].mask) ] ]

ComputeVisibilityMasks ==
    /\ pc = "masks"
    /\ renderableData' = computeVisibilityMasks(mVisibleLayers, renderableData)
    /\ pc' = "partition"
    /\ UNCHANGED << picking, resolution, jobState, frame, viewConfig, lights, ranges, ubo, shadowFlags >>

(***************************************************************************)
(* The partition of the renderable SoA.                                    *)
(***************************************************************************)
\* every order (a sequence without repetition) of the elements of S
RECURSIVE Orders(_)
Orders(S) ==
    IF S = {} THEN { << >> }
    ELSE UNION { { << x >> \o o : o \in Orders(S \ {x}) } : x \in S }

\* the array whose rows [begin, end) are the rows data[order[1]], data[order[2]], ...
Reordered(data, begin, end, order) ==
    [ i \in 1..Len(data) |->
        IF begin <= i - 1 /\ i - 1 < end THEN data[order[i - begin] + 1] ELSE data[i] ]

\* std::partition(begin, end, pred): the rows of [begin, end) are permuted
\* so that those satisfying pred (the indices in `good`) come first; the
\* order inside the two halves is unspecified.  Each outcome is the new
\* array and the returned iterator.
StdPartitionFromZero(data, begin, end, good) ==
    { [ data |-> Reordered(data, begin, end, g \o b), it |-> Cardinality(good) ]
      : g \in Orders(good), b \in Orders((begin .. (end - 1)) \ good) }

StdPartition(data, begin, end, good) ==
    { [ data |-> Reordered(data, begin, end, g \o b), it |-> begin + Cardinality(good) ]
      : g \in Orders(good), b \in Orders((begin .. (end - 1)) \ good) }

\* FView::partition(begin, end, mask)
partitionWholeMask(data, begin, end, mask) ==
    StdPartition(data, begin, end,
        { i \in begin .. (end - 1) : data[i + 1].mask = mask })

partition(data, begin, end, mask) ==
    StdPartition(data, begin, end,
        { i \in begin .. (end - 1) :
            (data[i + 1].mask \cap (VISIBLE_RENDERABLE \cup VISIBLE_DIR_SHADOW_RENDERABLE))
                = mask })

\* the std::partition on the spot-shadow bits
partitionSpotLightCasters(data, begin, end) ==
    StdPartition(data, begin, end,
        { i \in begin .. (end - 1) :
            (data[i + 1].mask \cap VISIBLE_SPOT_SHADOW_RENDERABLE) # {} })

\* the ranges FView::prepare derives from the four partition points
VisibleRenderablesUpToCasters(itCasters, itCastersOnly, iEnd, iSpotEnd) ==
    Range(0, iEnd)

VisibleRenderablesOf(itCasters, itCastersOnly, iEnd, iSpotEnd) ==
    Range(0, itCastersOnly)

\* the range of group 3 alone
DirectionalShadowCastersOnlyOf(itCasters, itCastersOnly, iEnd, iSpotEnd) ==
    Range(itCastersOnly, iEnd)

VisibleDirectionalShadowCastersOf(itCasters, itCastersOnly, iEnd, iSpotEnd) ==
    Range(itCasters, iEnd)

SpotLightShadowCastersUpToCasters(itCasters, itCastersOnly, iEnd, iSpotEnd) ==
    Range(0, iEnd)

SpotLightShadowCastersOf(itCasters, itCastersOnly, iEnd, iSpotEnd) ==
    Range(0, iSpotEnd)

MergedOf(itCasters, itCastersOnly, iEnd, iSpotEnd) ==
    Range(0, iSpotEnd)

PartitionRenderables ==
    /\ pc = "partition"
    /\ LET end == Len(renderableData) IN
       \E r1 \in partition(renderableData, 0, end, VISIBLE_RENDERABLE) :
       \E r2 \in partition(r1.data, r1.it, end,
                           VISIBLE_RENDERABLE \cup VISIBLE_DIR_SHADOW_RENDERABLE) :
       \E r3 \in partition(r2.data, r2.it, end, VISIBLE_DIR_SHADOW_RENDERABLE) :
       \E r4 \in partitionSpotLightCasters(r3.data, r3.it, end) :
          /\ renderableData' = r4.data
          /\ mVisibleRenderables' = VisibleRenderablesOf(r1.it, r2.it, r3.it, r4.it)
          /\ mVisibleDirectionalShadowCasters' =
                VisibleDirectionalShadowCastersOf(r1.it, r2.it, r3.it, r4.it)
          /\ mSpotLightShadowCasters' = SpotLightShadowCastersOf(r1.it, r2.it, r3.it, r4.it)
          /\ merged' = MergedOf(r1.it, r2.it, r3.it, r4.it)
    /\ pc' = "ubo"
    /\ UNCHANGED << picking, resolution, jobState, frame, viewConfig, lights, ubo, shadowFlags >>

(***************************************************************************)
(* The per-renderable uniform buffer.                                      *)
(***************************************************************************)
UboSizeOfVisible(range) == RangeSize(mVisibleRenderables) * SizeofPerRenderableUib

\* `size` of FView::prepare: the byte size of the merged range
UboSizeOf(range) == RangeSize(range) * SizeofPerRenderableUib

\* the element count of a re-allocated buffer (the uint32_t conversion of the
\* byte size is exact for every count the model reaches)
UboGrowCount(n) == Max(MinUboCount, (4 * n + 2) \div 3)

UpdateUBOsResizing ==
    /\ pc = "ubo"
    /\ LET size == UboSizeOf(merged) IN
       IF size # 0
       THEN /\ IF mRenderableUBOSize # size
               THEN /\ mRenderableUBOSize' =
                        UboGrowCount(RangeSize(merged)) * SizeofPerRenderableUib
                    /\ mRenderableUbh' = "valid"
                    /\ uboAllocs' = uboAllocs + 1
               ELSE UNCHANGED << mRenderableUBOSize, mRenderableUbh, uboAllocs >>
            /\ uboUploads' = Append(uboUploads, merged)
       ELSE UNCHANGED ubo
    /\ pc' = "lighting"
    /\ UNCHANGED << picking, resolution, jobState, frame, viewConfig, renderableData, lights, ranges,
                    shadowFlags >>

UpdateUBOs ==
    /\ pc = "ubo"
    /\ LET size == UboSizeOf(merged) IN
       IF size # 0
       THEN /\ IF mRenderableUBOSize < size
               THEN /\ mRenderableUBOSize' =
                        UboGrowCount(RangeSize(merged)) * SizeofPerRenderableUib
                    /\ mRenderableUbh' = "valid"
                    /\ uboAllocs' = uboAllocs + 1
               ELSE UNCHANGED << mRenderableUBOSize, mRenderableUbh, uboAllocs >>
            /\ uboUploads' = Append(uboUploads, merged)
       ELSE UNCHANGED ubo
    /\ pc' = "lighting"
    /\ UNCHANGED << picking, resolution, jobState, frame, viewConfig, renderableData, lights, ranges,
                    shadowFlags >>

\* prepareLighting and the rest of FView::prepare change nothing modelled here
PrepareLighting ==
    /\ pc = "lighting"
    /\ pc' = "idle"
    /\ UNCHANGED << picking, resolution, jobState, frame, viewConfig, renderableData, lights, ranges, ubo,
                    shadowFlags >>

(***************************************************************************)
(* FView::prepareVisibleLights, the body of the light job.                 *)
(***************************************************************************)
\* Culler::intersects(visibleArray, frustum, sphereArray, lightData.size()):
\* every row, the directional one included, gets the result of its sphere test
CullLights(ld) ==
    [ i \in 1..Len(ld) |-> [ ld[i] EXCEPT !.visibility = ld[i].sphereInFrustum ] ]

LightStaysVisibleUnlessNegative(l) ==
    /\ l.visibility
    /\ l.isLightCaster
    /\ ~(l.intensity < 0)
    /\ ~(l.isSpotLight /\ l.coneSeparated)

\* the filter loop keeps visibleArray[i] set for row l
LightStaysVisible(l) ==
    /\ l.visibility
    /\ l.isLightCaster
    /\ ~(l.intensity <= 0)
    /\ ~(l.isSpotLight /\ l.coneSeparated)

FilterLights(ld) ==
    [ i \in 1..Len(ld) |->
        IF i - 1 >= DIRECTIONAL_LIGHTS_COUNT
        THEN [ ld[i] EXCEPT !.visibility = LightStaysVisible(ld[i]) ]
        ELSE ld[i] ]

\* visibleLightCount after the filter loop
VisibleLightCount(ld) ==
    DIRECTIONAL_LIGHTS_COUNT
        + Cardinality({ i \in DIRECTIONAL_LIGHTS_COUNT .. (Len(ld) - 1) : ld[i + 1].visibility })

PartitionLightsFromBegin(ld) ==
    StdPartition(ld, 0, Len(ld), { i \in 0 .. (Len(ld) - 1) : ld[i + 1].visibility })

\* std::partition(lightData.begin() + DIRECTIONAL_LIGHTS_COUNT, lightData.end(), VISIBILITY != 0)
PartitionLights(ld) ==
    StdPartition(ld, DIRECTIONAL_LIGHTS_COUNT, Len(ld),
        { i \in DIRECTIONAL_LIGHTS_COUNT .. (Len(ld) - 1) : ld[i + 1].visibility })

SortLightsButLast(ld, begin, end) ==
    { Reordered(ld, begin, end - 1, o) :
        o \in { q \in Orders(begin .. (end - 2)) :
                  \A a, b \in 1..Len(q) :
                      a < b => ld[q[a] + 1].distance <= ld[q[b] + 1].distance } }

\* std::sort(b + begin, b + end, lhs.second < rhs.second): the rows of
\* [begin, end) in non-decreasing distance, equal distances in any order
SortLights(ld, begin, end) ==
    { Reordered(ld, begin, end, o) :
        o \in { q \in Orders(begin .. (end - 1)) :
                  \A a, b \in 1..Len(q) :
                      a < b => ld[q[a] + 1].distance <= ld[q[b] + 1].distance } }

\* lightData.resize(min(size, CONFIG_MAX_LIGHT_COUNT + DIRECTIONAL_LIGHTS_COUNT))
ResizedLightCount(size) == Min(size, CONFIG_MAX_LIGHT_COUNT + DIRECTIONAL_LIGHTS_COUNT)

PrepareVisibleLights ==
    /\ jobState = "running"
    /\ LET filtered == FilterLights(CullLights(lightData))
           size == VisibleLightCount(filtered)
       IN  \E parted \in PartitionLights(filtered) :
           \E sorted \in ( IF size - DIRECTIONAL_LIGHTS_COUNT # 0
                           THEN SortLights(parted.data, DIRECTIONAL_LIGHTS_COUNT, size)
                           ELSE {parted.data} ) :
              lightData' = SubSeq(sorted, 1, ResizedLightCount(size))
    /\ jobState' = "finished"
    /\ UNCHANGED << picking, resolution, pc, frame, viewConfig, renderableData, sceneLights, ranges, ubo,
                    shadowFlags >>

\* The body of the job, statement by statement: the job system may run
\* each of them at any moment between runAndRetain and waitAndRelease.
JobStepUnchanged ==
    UNCHANGED << picking, resolution, pc, frame, viewConfig, renderableData, sceneLights, ranges, ubo,
                 shadowFlags >>

\* Culler::intersects(visibleArray, frustum, sphereArray, lightData.size())
JobCullLights ==
    /\ jobState = "running"
    /\ lightData' = CullLights(lightData)
    /\ jobState' = "culled"
    /\ JobStepUnchanged

\* the filter loop
JobFilterLights ==
    /\ jobState = "culled"
    /\ lightData' = FilterLights(lightData)
    /\ jobState' = "filtered"
    /\ JobStepUnchanged

\* std::partition
JobPartitionLights ==
    /\ jobState = "filtered"
    /\ \E parted \in PartitionLights(lightData) : lightData' = parted.data
    /\ jobState' = "partitioned"
    /\ JobStepUnchanged

\* computeLightCameraDistances and std::sort; visibleLightCount is the number
\* of rows whose VISIBILITY the filter loop left set
JobSortLights ==
    /\ jobState = "partitioned"
    /\ LET size == VisibleLightCount(lightData)
       IN  \E sorted \in ( IF size - DIRECTIONAL_LIGHTS_COUNT # 0
                           THEN SortLights(lightData, DIRECTIONAL_LIGHTS_COUNT, size)
                           ELSE {lightData} ) :
              lightData' = sorted
    /\ jobState' = "sorted"
    /\ JobStepUnchanged

\* lightData.resize(...)
JobResizeLights ==
    /\ jobState = "sorted"
    /\ lightData' = SubSeq(lightData, 1, ResizedLightCount(VisibleLightCount(lightData)))
    /\ jobState' = "finished"
    /\ JobStepUnchanged

(***************************************************************************)
(* Specifications.                                                         *)
(***************************************************************************)
ShadowBits == VISIBLE_DIR_SHADOW_RENDERABLE \cup VISIBLE_SPOT_SHADOW_RENDERABLE

\* The renderable side of the frame: the light list holds the directional
\* light only, so no light job is started.
Next ==
    \/ \E select \in {{1}}, values \in SUBSET LayerBits :
            setVisibleLayers(select, values)
    \/ \E culling \in BOOLEAN : setFrustumCullingEnabled(culling)
    \/ \E enabled \in BOOLEAN : setShadowingEnabled(enabled)
    \/ /\ pc = "idle" /\ frame < MaxFrames
       /\ \E n \in 0..MaxRenderables : \E rows \in RenderableScenes(n) :
          \E d \in { l \in DirectionalLights : l.sphereInFrustum } :
                ScenePrepare(rows, << d >>)
    \/ SkipLightJob
    \/ /\ pc = "cull"
       /\ \E hits \in SUBSET (0 .. (Len(renderableData) - 1)) : CullRenderables(hits)
    \/ WaitAndRelease
    \/ /\ pc = "shadowing"
       /\ \E technique \in ShadowTechniques :
          \E casters \in [0 .. (Len(renderableData) - 1) -> SUBSET ShadowBits] :
                PrepareShadowing(technique, casters)
    \/ ComputeVisibilityMasks
    \/ PartitionRenderables
    \/ UpdateUBOs
    \/ PrepareLighting

Spec == Init /\ [][Next]_vars

\* The fork/join region of the frame on the light list: the scene holds
\* lights and no renderable.
NextLights ==
    \/ /\ pc = "idle" /\ frame < MaxFrames
       /\ \E n \in 0..MaxLights : \E ls \in LightScenes(n) : ScenePrepare(<< >>, ls)
    \/ StartLightJob
    \/ SkipLightJob
    \/ PrepareVisibleLights
    \/ CullRenderables({})
    \/ WaitAndRelease

SpecLights == Init /\ [][NextLights]_vars

\* computeVisibilityMasks as a function: every visible-layer selector and
\* every row (layer mask, visibility flags, incoming mask) of up to
\* MaxMaskRows rows.
MaskRows ==
    [ instance : {0}, layers : SUBSET LayerBits, culling : BOOLEAN,
      castShadows : BOOLEAN, mask : SUBSET MaskBits ]

InitMasks ==
    /\ pc = "masks"
    /\ jobState = "none"
    /\ frame = 1
    /\ mVisibleLayers \in SUBSET LayerBits
    /\ mCulling = TRUE
    /\ mShadowingEnabled = TRUE
    /\ \E n \in 1..MaxMaskRows :
         renderableData \in { [ i \in 1..n |-> [ f[i] EXCEPT !.instance = i ] ] :
                                f \in [1..n -> MaskRows] }
    /\ lightData \in { << d >> : d \in { l \in DirectionalLights :
                                            l.sphereInFrustum /\ ~l.isShadowCaster } }
    /\ sceneLights = lightData
    /\ mVisibleRenderables = Range(0, 0)
    /\ mVisibleDirectionalShadowCasters = Range(0, 0)
    /\ mSpotLightShadowCasters = Range(0, 0)
    /\ merged = Range(0, 0)
    /\ mRenderableUBOSize = 0
    /\ mRenderableUbh = "null"
    /\ uboAllocs = 0
    /\ uboUploads = << >>
    /\ mHasShadowing = FALSE
    /\ mNeedsShadowMap = FALSE
    /\ mShadowMapManager = NoShadowMapCalls
    /\ ConstructedResolution(TRUE, DefaultViewport)
    /\ ConstructedPicking

NextMasks == ComputeVisibilityMasks

SpecMasks == InitMasks /\ [][NextMasks]_vars

\* The whole frame on scenes whose lights cast shadows and that hold no
\* renderable, over MaxShadowFrames frames.
NextShadowing ==
    \/ \E enabled \in BOOLEAN : setShadowingEnabled(enabled)
    \/ /\ pc = "idle" /\ frame < MaxShadowFrames
       /\ \E n \in 0..MaxShadowLights : \E ls \in ShadowLightScenes(n) :
                ScenePrepare(<< >>, ls)
    \/ StartLightJob
    \/ SkipLightJob
    \/ PrepareVisibleLights
    \/ CullRenderables({})
    \/ WaitAndRelease
    \/ /\ pc = "shadowing"
       /\ \E technique \in ShadowTechniques : PrepareShadowing(technique, << >>)
    \/ ComputeVisibilityMasks
    \/ PartitionRenderables
    \/ UpdateUBOs
    \/ PrepareLighting

SpecShadowing == Init /\ [][NextShadowing]_vars

\* The frame with the fork/join region run step by step: the statements of
\* the light job interleave with those of the main thread in every order.
NextJob ==
    \/ \E culling \in BOOLEAN : setFrustumCullingEnabled(culling)
    \/ /\ pc = "idle" /\ frame < MaxFrames
       /\ \E n \in 0..MaxJobRenderables : \E rows \in JobRenderableScenes(n) :
          \E k \in 0..MaxJobLights : \E ls \in JobLightScenes(k) :
                ScenePrepare(rows, ls)
    \/ StartLightJob
    \/ SkipLightJob
    \/ JobCullLights
    \/ JobFilterLights
    \/ JobPartitionLights
    \/ JobSortLights
    \/ JobResizeLights
    \/ FillCullingMask
    \/ PrepareVisibleRenderables(FrustumHits(renderableData))
    \/ WaitAndRelease
    \/ PrepareShadowing({"SHADOW_MAP"}, [ i \in 0 .. (Len(renderableData) - 1) |-> {} ])
    \/ ComputeVisibilityMasks
    \/ PartitionRenderables
    \/ UpdateUBOs
    \/ PrepareLighting

SpecJob == Init /\ [][NextJob]_vars

\* The buffer update on its own.  A frame reaches it with a merged range
\* [0, n) and with the capacity earlier frames have left: none, or what the
\* last re-allocation computed for some element count.
UboCapacities ==
    {0} \cup { UboGrowCount(k) * SizeofPerRenderableUib : k \in 1..MaxUboRenderables }

InitUbo ==
    /\ pc = "ubo"
    /\ jobState = "none"
    /\ mVisibleLayers = {0}
    /\ mCulling = TRUE
    /\ mShadowingEnabled = TRUE
    /\ mRenderableUBOSize \in UboCapacities
    /\ frame = IF mRenderableUBOSize = 0 THEN 1 ELSE 2
    /\ mRenderableUbh = IF mRenderableUBOSize = 0 THEN "null" ELSE "valid"
    /\ \E n \in 0..MaxUboRenderables :
         /\ renderableData =
                [ i \in 1..n |-> [ instance |-> i, layers |-> {0}, culling |-> TRUE,
                                   castShadows |-> FALSE, mask |-> VISIBLE_RENDERABLE ] ]
         /\ mVisibleRenderables = Range(0, n)
         /\ mVisibleDirectionalShadowCasters = Range(n, n)
         /\ mSpotLightShadowCasters = Range(0, n)
         /\ merged = Range(0, n)
    /\ lightData \in { << d >> : d \in { l \in DirectionalLights :
                                            l.sphereInFrustum /\ ~l.isShadowCaster } }
    /\ sceneLights = lightData
    /\ uboAllocs = 0
    /\ uboUploads = << >>
    /\ mHasShadowing = FALSE
    /\ mNeedsShadowMap = FALSE
    /\ mShadowMapManager = NoShadowMapCalls
    /\ ConstructedResolution(TRUE, DefaultViewport)
    /\ ConstructedPicking

NextUbo ==
    \/ UpdateUBOs
    \/ PrepareLighting

SpecUbo == InitUbo /\ [][NextUbo]_vars

(***************************************************************************)
(* Properties of the partition (FView::prepare, FView::partition).         *)
(***************************************************************************)
\* the partitioning step of the current frame has run
AfterPartition == pc \in {"ubo", "lighting"} \/ (pc = "idle" /\ frame > 0)

\* the four partition points, read back from the ranges prepare() stores
beginCasters == mVisibleDirectionalShadowCasters.first
beginCastersOnly == mVisibleRenderables.last
beginSpotLightCastersOnly == mVisibleDirectionalShadowCasters.last
endSpotLightCastersOnly == merged.last

RenderableCount == Len(renderableData)
MaskAt(i) == renderableData[i + 1].mask

\* the group a final mask selects
GroupOfMask(m) ==
    IF m \cap (VISIBLE_RENDERABLE \cup VISIBLE_DIR_SHADOW_RENDERABLE) = VISIBLE_RENDERABLE
        THEN 1
    ELSE IF m \cap (VISIBLE_RENDERABLE \cup VISIBLE_DIR_SHADOW_RENDERABLE)
                = VISIBLE_RENDERABLE \cup VISIBLE_DIR_SHADOW_RENDERABLE
        THEN 2
    ELSE IF m \cap (VISIBLE_RENDERABLE \cup VISIBLE_DIR_SHADOW_RENDERABLE)
                = VISIBLE_DIR_SHADOW_RENDERABLE
        THEN 3
    ELSE IF m \cap VISIBLE_SPOT_SHADOW_RENDERABLE # {}
        THEN 4
    ELSE 5

\* the group an index lies in
GroupOfIndex(i) ==
    IF i < beginCasters THEN 1
    ELSE IF i < beginCastersOnly THEN 2
    ELSE IF i < beginSpotLightCastersOnly THEN 3
    ELSE IF i < endSpotLightCastersOnly THEN 4
    ELSE 5

GroupIndices(g) == { i \in 0 .. (RenderableCount - 1) : GroupOfIndex(i) = g }

\* C1: after the partitioning step the four partition points are ordered
\* 0 <= beginCasters <= beginCastersOnly <= beginSpotLightCastersOnly <=
\* endSpotLightCastersOnly <= N, the five groups they delimit are pairwise
\* disjoint intervals whose union is [0, N), and the array still holds every
\* renderable of the scene exactly once.
C1_PartitionCoversArray ==
    AfterPartition =>
        /\ 0 <= beginCasters
        /\ beginCasters <= beginCastersOnly
        /\ beginCastersOnly <= beginSpotLightCastersOnly
        /\ beginSpotLightCastersOnly <= endSpotLightCastersOnly
        /\ endSpotLightCastersOnly <= RenderableCount
        /\ GroupIndices(1) = 0 .. (beginCasters - 1)
        /\ GroupIndices(2) = beginCasters .. (beginCastersOnly - 1)
        /\ GroupIndices(3) = beginCastersOnly .. (beginSpotLightCastersOnly - 1)
        /\ GroupIndices(4) = beginSpotLightCastersOnly .. (endSpotLightCastersOnly - 1)
        /\ GroupIndices(5) = endSpotLightCastersOnly .. (RenderableCount - 1)
        /\ \A g, h \in 1..5 : g # h => GroupIndices(g) \cap GroupIndices(h) = {}
        /\ UNION { GroupIndices(g) : g \in 1..5 } = 0 .. (RenderableCount - 1)
        /\ \A i, j \in 1..RenderableCount :
                renderableData[i].instance = renderableData[j].instance => i = j
        /\ { renderableData[i].instance : i \in 1..RenderableCount } = 1..RenderableCount

C1_Witness ==
    /\ AfterPartition
    /\ RenderableCount >= 3
    /\ Cardinality({ g \in 1..5 : GroupIndices(g) # {} }) >= 3
    /\ GroupIndices(4) # {}

\* C2: after the partitioning step every renderable lies in the group its
\* final mask selects, and the group number does not decrease with the index.
C2_GroupsFollowMasks ==
    AfterPartition =>
        /\ \A i \in 0 .. (RenderableCount - 1) : GroupOfMask(MaskAt(i)) = GroupOfIndex(i)
        /\ \A i, j \in 0 .. (RenderableCount - 1) :
                i < j => GroupOfMask(MaskAt(i)) <= GroupOfMask(MaskAt(j))

C2_Witness ==
    /\ AfterPartition
    /\ \E i, j, k \in 0 .. (RenderableCount - 1) :
        /\ i < j /\ j < k
        /\ GroupOfMask(MaskAt(i)) \in {1, 2}
        /\ MaskAt(i) \cap VISIBLE_SPOT_SHADOW_RENDERABLE # {}
        /\ GroupOfMask(MaskAt(j)) = 3
        /\ GroupOfMask(MaskAt(k)) = 4

\* C3: after the partitioning step every index of mVisibleRenderables holds a
\* renderable whose VISIBLE_RENDERABLE bit is set, i.e. a renderable whose
\* bit is clear is never inside that range (never in group 1 or 2).
C3_VisibleRangeIsVisible ==
    AfterPartition =>
        /\ mVisibleRenderables.first = 0
        /\ mVisibleRenderables.last <= RenderableCount
        /\ \A i \in RangeIndices(mVisibleRenderables) :
                MaskAt(i) \cap VISIBLE_RENDERABLE # {}
        /\ \A i \in 0 .. (RenderableCount - 1) :
                MaskAt(i) \cap VISIBLE_RENDERABLE = {} => GroupOfIndex(i) \notin {1, 2}

C3_Witness ==
    /\ AfterPartition
    /\ RangeSize(mVisibleRenderables) >= 1
    /\ GroupIndices(3) # {}
    /\ GroupIndices(4) # {}

\* C4 as stated: mVisibleRenderables covers groups 1-2 and also the
\* spot-shadow-caster-only renderables (group 4).
C4_Original ==
    AfterPartition =>
        \A i \in 0 .. (RenderableCount - 1) :
            GroupOfMask(MaskAt(i)) \in {1, 2, 4} => i \in RangeIndices(mVisibleRenderables)

\* C4 (amended): mVisibleRenderables is exactly groups 1-2; the ranges that
\* subsume the spot-shadow-caster-only renderables (group 4) are
\* mSpotLightShadowCasters and the merged upload range, both
\* [0, endSpotLightCastersOnly), and no group-4 renderable is inside
\* mVisibleRenderables.
C4_SpotCastersInMergedRange ==
    AfterPartition =>
        /\ \A i \in 0 .. (RenderableCount - 1) :
                i \in RangeIndices(mVisibleRenderables) <=> GroupOfMask(MaskAt(i)) \in {1, 2}
        /\ \A i \in 0 .. (RenderableCount - 1) :
                GroupOfMask(MaskAt(i)) = 4 =>
                    /\ i \in RangeIndices(mSpotLightShadowCasters)
                    /\ i \in RangeIndices(merged)
                    /\ i \notin RangeIndices(mVisibleRenderables)
        /\ mSpotLightShadowCasters = Range(0, endSpotLightCastersOnly)
        /\ merged = Range(0, endSpotLightCastersOnly)

C4_Witness ==
    /\ AfterPartition
    /\ RangeSize(mVisibleRenderables) >= 1
    /\ \E i \in 0 .. (RenderableCount - 1) : GroupOfMask(MaskAt(i)) = 4
    /\ \E i \in 0 .. (RenderableCount - 1) : GroupOfMask(MaskAt(i)) = 5

\* C5: in a frame scene->updateUBOs is called exactly when the range
\* [0, end of group 4) is not empty, once, with exactly that range, which
\* holds the renderables of groups 1-4 and no fully invisible one; when the
\* range is empty there is neither an upload nor a buffer re-allocation, and
\* nothing is uploaded before the upload step.
UploadStepDone == pc = "lighting" \/ (pc = "idle" /\ frame > 0)

C5_UploadExactlyMergedRange ==
    /\ pc \in {"fork", "cull", "join", "shadowing", "masks", "partition", "ubo"} =>
            uboUploads = << >> /\ uboAllocs = 0
    /\ UploadStepDone =>
        IF endSpotLightCastersOnly > 0
        THEN /\ uboUploads = << Range(0, endSpotLightCastersOnly) >>
             /\ \A i \in 0 .. (RenderableCount - 1) :
                    i \in RangeIndices(uboUploads[1]) <=> GroupOfMask(MaskAt(i)) # 5
             /\ \A i \in RangeIndices(uboUploads[1]) : MaskAt(i) # {}
        ELSE /\ uboUploads = << >>
             /\ uboAllocs = 0
             /\ \A i \in 0 .. (RenderableCount - 1) : GroupOfMask(MaskAt(i)) = 5

C5_Witness ==
    /\ UploadStepDone
    /\ Len(uboUploads) = 1
    /\ RangeSize(mVisibleRenderables) = 0
    /\ GroupIndices(4) # {}
    /\ GroupIndices(5) # {}

(***************************************************************************)
(* Properties of FView::computeVisibilityMasks.                            *)
(***************************************************************************)
\* C6: computeVisibilityMasks sets the VISIBLE_RENDERABLE bit of every row to
\* (layers & visibleLayers != 0) AND (culling disabled OR the incoming
\* VISIBLE_RENDERABLE bit set); a row outside the visible layers ends with
\* the bit clear even when its culling is disabled.
C6_RenderableBit ==
    [][ ComputeVisibilityMasks =>
            \A i \in 1..Len(renderableData) :
                (renderableData'[i].mask \cap VISIBLE_RENDERABLE # {})
                    <=> ( /\ renderableData[i].layers \cap mVisibleLayers # {}
                          /\ ( \/ ~renderableData[i].culling
                               \/ renderableData[i].mask \cap VISIBLE_RENDERABLE # {} ) )
      ]_vars

C6_Witness ==
    /\ pc = "partition"
    /\ \E i \in 1..Len(renderableData) :
        /\ ~renderableData[i].culling
        /\ renderableData[i].layers # {}
        /\ renderableData[i].layers \cap mVisibleLayers = {}
        /\ renderableData[i].mask = {}

\* C7 as stated: after computeVisibilityMasks the VISIBLE_DIR_SHADOW_RENDERABLE
\* bit of a row equals (its VISIBLE_RENDERABLE bit just computed) AND
\* castShadows, so no row has the shadow bit without the renderable bit.
C7_Original ==
    pc = "partition" =>
        \A i \in 1..Len(renderableData) :
            /\ (renderableData[i].mask \cap VISIBLE_DIR_SHADOW_RENDERABLE # {})
                  <=> ( /\ renderableData[i].mask \cap VISIBLE_RENDERABLE # {}
                        /\ renderableData[i].castShadows )
            /\ (renderableData[i].mask \cap VISIBLE_DIR_SHADOW_RENDERABLE # {}
                  => renderableData[i].mask \cap VISIBLE_RENDERABLE # {})

\* C7 (amended): computeVisibilityMasks sets the VISIBLE_DIR_SHADOW_RENDERABLE
\* bit of every row to (layers & visibleLayers != 0) AND (culling disabled OR
\* the incoming VISIBLE_DIR_SHADOW_RENDERABLE bit set) AND castShadows: it is
\* derived from the row's own incoming shadow bit, not from its
\* VISIBLE_RENDERABLE bit, and a row can carry it without being a visible
\* renderable.
C7_DirShadowBit ==
    [][ ComputeVisibilityMasks =>
            \A i \in 1..Len(renderableData) :
                (renderableData'[i].mask \cap VISIBLE_DIR_SHADOW_RENDERABLE # {})
                    <=> ( /\ renderableData[i].layers \cap mVisibleLayers # {}
                          /\ ( \/ ~renderableData[i].culling
                               \/ renderableData[i].mask
                                        \cap VISIBLE_DIR_SHADOW_RENDERABLE # {} )
                          /\ renderableData[i].castShadows )
      ]_vars

C7_Witness ==
    /\ pc = "partition"
    /\ \E i, j \in 1..Len(renderableData) :
        /\ renderableData[i].mask \cap (VISIBLE_RENDERABLE \cup VISIBLE_DIR_SHADOW_RENDERABLE)
                = VISIBLE_DIR_SHADOW_RENDERABLE
        /\ renderableData[j].castShadows
        /\ renderableData[j].mask \cap (VISIBLE_RENDERABLE \cup VISIBLE_DIR_SHADOW_RENDERABLE)
                = VISIBLE_RENDERABLE

(***************************************************************************)
(* Properties of FView::prepareVisibleLights.                              *)
(***************************************************************************)
\* prepareVisibleLights has run in the current frame
LightsPrepared ==
    \/ jobState = "finished"
    \/ (pc = "shadowing" /\ Len(sceneLights) > DIRECTIONAL_LIGHTS_COUNT)

\* the scene's row passes the sphere test and the three filters
SceneSurvives(l) ==
    /\ l.sphereInFrustum
    /\ l.isLightCaster
    /\ l.intensity > 0
    /\ (~l.isSpotLight \/ ~l.coneSeparated)

\* the positional rows of the scene's list that pass, as indices (1-based)
Survivors == { i \in 2..Len(sceneLights) : SceneSurvives(sceneLights[i]) }

RetainedInstances == { lightData[i].instance : i \in 2..Len(lightData) }

\* C8: after prepareVisibleLights the list is not empty and its entry 0 is
\* the directional light the scene put there (the same instance with the same
\* attributes; its VISIBILITY flag holds whatever the sphere test wrote), and
\* the directional light is at no other index.
C8_DirectionalStaysFirst ==
    LightsPrepared =>
        /\ Len(lightData) >= 1
        /\ lightData[1].instance = sceneLights[1].instance
        /\ [ lightData[1] EXCEPT !.visibility = TRUE ]
                = [ sceneLights[1] EXCEPT !.visibility = TRUE ]
        /\ \A i \in 2..Len(lightData) : lightData[i].instance # sceneLights[1].instance

C8_Witness ==
    /\ LightsPrepared
    /\ ~lightData[1].visibility
    /\ Cardinality(Survivors) > CONFIG_MAX_LIGHT_COUNT
    /\ Cardinality(Survivors) < Len(sceneLights) - 1
    /\ Len(lightData) = CONFIG_MAX_LIGHT_COUNT + 1

\* C9: after prepareVisibleLights the positional lights (indices 1..size-1)
\* are in non-decreasing distance, the list holds at most
\* CONFIG_MAX_LIGHT_COUNT + 1 rows, and every light that passed the filters
\* but was dropped by the cap is at least as far as every retained one.
C9_SortedAndCapped ==
    LightsPrepared =>
        /\ \A i, j \in 2..Len(lightData) :
                i < j => lightData[i].distance <= lightData[j].distance
        /\ Len(lightData) <= CONFIG_MAX_LIGHT_COUNT + 1
        /\ \A d \in Survivors :
                sceneLights[d].instance \notin RetainedInstances =>
                    \A r \in 2..Len(lightData) :
                        sceneLights[d].distance >= lightData[r].distance

C9_Witness ==
    /\ LightsPrepared
    /\ Len(lightData) = CONFIG_MAX_LIGHT_COUNT + 1
    /\ lightData[2].distance < lightData[Len(lightData)].distance
    /\ \E d \in Survivors : sceneLights[d].instance \notin RetainedInstances
    /\ \E i, j \in Survivors : i < j /\ sceneLights[i].distance > sceneLights[j].distance

\* C10: when the lights that pass do not exceed the cap, a positional light
\* is retained iff its sphere test passed, it is a light caster, its
\* intensity is > 0 and it is not a spot light whose cone a frustum plane
\* separates; the list then holds exactly those lights behind the directional
\* one (only the directional one if none passes).  Every retained positional
\* light has its VISIBILITY flag set, whether or not the cap was exceeded.
C10_RetainedIffPasses ==
    LightsPrepared =>
        /\ \A i \in 2..Len(lightData) : lightData[i].visibility
        /\ Cardinality(Survivors) <= CONFIG_MAX_LIGHT_COUNT =>
              /\ \A i \in 2..Len(sceneLights) :
                    (sceneLights[i].instance \in RetainedInstances)
                        <=> SceneSurvives(sceneLights[i])
              /\ Len(lightData) = DIRECTIONAL_LIGHTS_COUNT + Cardinality(Survivors)
              /\ (Survivors = {} => Len(lightData) = DIRECTIONAL_LIGHTS_COUNT)

C10_Witness ==
    /\ LightsPrepared
    /\ Len(sceneLights) = MaxLights + 1
    /\ Len(lightData) = Len(sceneLights) - 2
    /\ \E i, j \in 2..Len(sceneLights) :
        /\ sceneLights[i].sphereInFrustum /\ sceneLights[i].isLightCaster
        /\ sceneLights[i].intensity = 0
        /\ sceneLights[j].isSpotLight /\ sceneLights[j].coneSeparated

(***************************************************************************)
(* Properties of FView::prepareShadowing.                                  *)
(***************************************************************************)
\* prepareShadowing has run in the current frame and the frame is not over
AfterShadowing == pc \in {"masks", "partition", "ubo", "lighting"}

\* the positional rows of the list that are valid shadow-casting spot lights
ShadowCastingSpots ==
    { l \in DIRECTIONAL_LIGHTS_COUNT .. (Len(lightData) - 1) :
        /\ lightData[l + 1].isValid
        /\ lightData[l + 1].isShadowCaster
        /\ lightData[l + 1].isSpotLight }

\* the light indices handed to addSpotShadowMap in this frame
RegisteredSpots == { mShadowMapManager.spots[k] : k \in 1..Len(mShadowMapManager.spots) }

\* C11: after prepareShadowing with shadowing enabled, the number of spot
\* lights registered with the shadow-map subsystem is
\* min(CONFIG_MAX_SHADOW_CASTING_SPOTS, number of valid shadow-casting spot
\* lights in the list), each is registered once, in list order, the
\* registered ones are the first such lights of the list, and going over the
\* cap is no error: reset and update are still called once each.
C11_SpotsRegisteredUpToCap ==
    (AfterShadowing /\ mShadowingEnabled) =>
        /\ Len(mShadowMapManager.spots)
                = Min(CONFIG_MAX_SHADOW_CASTING_SPOTS, Cardinality(ShadowCastingSpots))
        /\ \A j, k \in 1..Len(mShadowMapManager.spots) :
                j < k => mShadowMapManager.spots[j] < mShadowMapManager.spots[k]
        /\ RegisteredSpots \subseteq ShadowCastingSpots
        /\ \A c \in ShadowCastingSpots \ RegisteredSpots : \A r \in RegisteredSpots : r < c
        /\ mShadowMapManager.reset = 1
        /\ mShadowMapManager.update = 1

C11_Witness ==
    /\ AfterShadowing
    /\ mShadowingEnabled
    /\ Cardinality(ShadowCastingSpots) > CONFIG_MAX_SHADOW_CASTING_SPOTS
    /\ Len(mShadowMapManager.spots) = CONFIG_MAX_SHADOW_CASTING_SPOTS
    /\ Len(sceneLights) > Len(lightData)

\* C12: a prepareShadowing step with shadowing disabled ends with
\* mHasShadowing = false and mNeedsShadowMap = false whatever the two flags
\* held before, and the shadow-map subsystem receives no call in that frame:
\* no reset, no cascade, no spot registration, no update.
C12_DisabledShortCircuits ==
    [][ (pc = "shadowing" /\ pc' = "masks" /\ ~mShadowingEnabled) =>
            /\ ~mHasShadowing'
            /\ ~mNeedsShadowMap'
            /\ mShadowMapManager = NoShadowMapCalls
            /\ mShadowMapManager' = NoShadowMapCalls
      ]_vars

\* prepareShadowing runs with shadowing disabled on lights that would be
\* registered, with both flags still set by the previous frame
C12_Witness ==
    /\ pc = "shadowing"
    /\ frame = MaxShadowFrames
    /\ ~mShadowingEnabled
    /\ mHasShadowing
    /\ mNeedsShadowMap
    /\ lightData[1].isShadowCaster
    /\ ShadowCastingSpots # {}

(***************************************************************************)
(* Properties of the fork/join region of FView::prepare.                   *)
(***************************************************************************)
\* the job has been started and has not run to its end
JobInFlight == jobState \in {"running", "culled", "filtered", "partitioned", "sorted"}

\* the steps of prepare() that come after the join
AfterJoin == pc \in {"shadowing", "masks", "partition", "ubo", "lighting"}

\* C13: in every frame prepare() starts the light job iff the light list
\* holds a positional light (size > DIRECTIONAL_LIGHTS_COUNT); a job is
\* started only at the fork, which a frame passes once, so at most one job is
\* started per frame; prepareShadowing and every later step (partitioning,
\* prepareLighting) begin only once the job has finished, if one was started;
\* and no job is in flight or retained when prepare() has returned.
C13_JobForkedAndJoined ==
    /\ [][ (pc = "fork" /\ pc' # "fork") =>
              /\ jobState = "none"
              /\ (jobState' = "running") <=> (Len(lightData) > DIRECTIONAL_LIGHTS_COUNT)
              /\ (jobState' = "none") <=> ~(Len(lightData) > DIRECTIONAL_LIGHTS_COUNT)
         ]_vars
    /\ [][ (jobState' = "running" /\ jobState # "running") => (pc = "fork" /\ pc' = "cull")
         ]_vars
    /\ [][ (pc' = "fork" /\ pc # "fork") => (pc = "idle" /\ frame' = frame + 1) ]_vars
    /\ [][ (pc' = "shadowing" /\ pc # "shadowing") =>
              /\ ~JobInFlight
              /\ (jobState = "finished") <=> (Len(sceneLights) > DIRECTIONAL_LIGHTS_COUNT)
         ]_vars
    /\ [](AfterJoin => jobState = "none")
    /\ [](pc = "idle" => jobState = "none")

C13_Witness ==
    /\ pc = "join"
    /\ jobState = "partitioned"
    /\ Len(lightData) > DIRECTIONAL_LIGHTS_COUNT + 1
    /\ Len(renderableData) > 0

\* the results prepareVisibleLights can leave when it runs alone on list ld
PreparedLightLists(ld) ==
    LET filtered == FilterLights(CullLights(ld))
        size == VisibleLightCount(filtered)
    IN  { SubSeq(sorted, 1, ResizedLightCount(size)) :
            sorted \in UNION { IF size - DIRECTIONAL_LIGHTS_COUNT # 0
                               THEN SortLights(parted.data, DIRECTIONAL_LIGHTS_COUNT, size)
                               ELSE {parted.data}
                               : parted \in PartitionLights(filtered) } }

\* the masks the zero-fill and the renderable culling leave when they run
\* alone on the rows of `data`
CulledRenderables(data) == prepareVisibleRenderables(ZeroFill(data), FrustumHits(data))

\* C14: between fork and join a step of the light job changes the light
\* list only and a step of the main thread (zero-fill, renderable culling)
\* changes the renderable masks only; and whatever the interleaving of the
\* two, the light list and the masks found after the join are results of
\* running the light job alone on the scene's list and the zero-fill and
\* culling alone on the scene's renderables.
C14_InterleavingIsSequential ==
    /\ [][ (jobState' # jobState /\ pc' = pc) =>
                /\ renderableData' = renderableData
                /\ sceneLights' = sceneLights
         ]_vars
    /\ [][ (pc \in {"cull", "culling"} /\ pc' # pc) =>
                /\ lightData' = lightData
                /\ jobState' = jobState
                /\ \A i \in 1..Len(renderableData) :
                        [ renderableData'[i] EXCEPT !.mask = {} ]
                            = [ renderableData[i] EXCEPT !.mask = {} ]
         ]_vars
    /\ [](pc = "shadowing" =>
                /\ ( IF Len(sceneLights) > DIRECTIONAL_LIGHTS_COUNT
                     THEN lightData \in PreparedLightLists(sceneLights)
                     ELSE lightData = sceneLights )
                /\ renderableData = CulledRenderables(renderableData))

\* the main thread has culled before the job did its first step, on a list
\* the job will reorder and shorten
C14_Witness ==
    /\ pc = "join"
    /\ jobState = "running"
    /\ Len(sceneLights) = MaxJobLights + 1
    /\ Cardinality(Survivors) > CONFIG_MAX_LIGHT_COUNT
    /\ \E i, j \in Survivors : i < j /\ sceneLights[i].distance > sceneLights[j].distance
    /\ \E i \in 1..Len(renderableData) :
            renderableData[i].aabbInFrustum /\ renderableData[i].mask = VISIBLE_RENDERABLE
    /\ \E i \in 1..Len(renderableData) :
            ~renderableData[i].aabbInFrustum /\ renderableData[i].mask = {}

(***************************************************************************)
(* Properties of the per-renderable buffer (FView::prepare).               *)
(***************************************************************************)
\* the byte size the frame requires
RequiredUboSize == RangeSize(merged) * SizeofPerRenderableUib

\* C15: the capacity mRenderableUBOSize never decreases; the buffer is
\* re-created exactly in a frame whose required byte size exceeds the
\* capacity, and then the capacity becomes max(16, floor((4n+2)/3)) elements
\* for the n required ones; otherwise capacity and handle stay as they are;
\* and whenever an upload is issued the capacity is at least the required
\* byte size and the handle is valid.  The capacity a frame leaves is again
\* one a frame can start with.
C15_CapacityOnlyGrows ==
    /\ [][ mRenderableUBOSize' >= mRenderableUBOSize ]_vars
    /\ [][ (pc = "ubo" /\ pc' = "lighting") =>
              /\ (uboAllocs' = uboAllocs + 1) <=> (RequiredUboSize > mRenderableUBOSize)
              /\ (uboAllocs' = uboAllocs) <=> ~(RequiredUboSize > mRenderableUBOSize)
              /\ RequiredUboSize > mRenderableUBOSize =>
                    /\ mRenderableUBOSize' =
                          SizeofPerRenderableUib *
                            ( IF (4 * RangeSize(merged) + 2) \div 3 > 16
                              THEN (4 * RangeSize(merged) + 2) \div 3 ELSE 16 )
                    /\ mRenderableUbh' = "valid"
              /\ ~(RequiredUboSize > mRenderableUBOSize) =>
                    /\ mRenderableUBOSize' = mRenderableUBOSize
                    /\ mRenderableUbh' = mRenderableUbh
              /\ uboUploads' # uboUploads =>
                    /\ mRenderableUBOSize' >= RequiredUboSize
                    /\ mRenderableUbh' = "valid"
              /\ mRenderableUBOSize' \in UboCapacities
         ]_vars
    /\ [][ ~(pc = "ubo" /\ pc' = "lighting") =>
              UNCHANGED << mRenderableUBOSize, mRenderableUbh, uboAllocs >> ]_vars

\* a buffer of the minimum capacity has been replaced by one of
\* floor((4n+2)/3) elements
C15_Witness ==
    /\ pc = "lighting"
    /\ frame = 2
    /\ uboAllocs = 1
    /\ Len(uboUploads) = 1
    /\ RangeSize(merged) > MinUboCount
    /\ mRenderableUBOSize = ((4 * RangeSize(merged) + 2) \div 3) * SizeofPerRenderableUib
    /\ mRenderableUBOSize > RequiredUboSize

(***************************************************************************)
(* setDynamicResolutionOptions on its own: any options, on a device with   *)
(* or without frame timing.                                                *)
(***************************************************************************)
\* scale values a caller can pass: negative, zero, in range, above 2
ScaleInputs == { -ScaleUnit, 0, ScaleUnit \div 2, (3 * ScaleUnit) \div 2, 3 * ScaleUnit }
SharpnessInputs == { -ScaleUnit, ScaleUnit, 3 * ScaleUnit }
OptionInputs == [ enabled : BOOLEAN, homogeneousScaling : {FALSE}, minScale : { Float2(a, b) : a \in ScaleInputs, b \in {0, 3 * ScaleUnit} }, maxScale : { Float2(a, b) : a \in ScaleInputs, b \in {ScaleUnit, 3 * ScaleUnit} }, sharpness : SharpnessInputs ]

InitOptions == ConstructedView /\ ConstructedPicking /\ \E supported \in BOOLEAN : ConstructedResolution(supported, DefaultViewport)

NextOptions == \E options \in OptionInputs : setDynamicResolutionOptions(options)

SpecOptions == InitOptions /\ [][NextOptions]_vars

\* C17: with dynamic resolution enabled on a device that supports frame timing,
\* the stored options have minScale >= 1/1024 on both axes, maxScale >= minScale,
\* maxScale <= 2.0 and sharpness within [0, 2].
C17_Original ==
    (mDynamicResolution.enabled /\ mIsDynamicResolutionSupported) =>
        /\ mDynamicResolution.minScale.x >= ScaleUnit \div 1024
        /\ mDynamicResolution.minScale.y >= ScaleUnit \div 1024
        /\ mDynamicResolution.maxScale.x >= mDynamicResolution.minScale.x
        /\ mDynamicResolution.maxScale.y >= mDynamicResolution.minScale.y
        /\ mDynamicResolution.maxScale.x <= 2 * ScaleUnit
        /\ mDynamicResolution.maxScale.y <= 2 * ScaleUnit
        /\ mDynamicResolution.sharpness >= 0
        /\ mDynamicResolution.sharpness <= 2 * ScaleUnit

(***************************************************************************)
(* updateScale once per frame, between calls of setDynamicResolutionOptions.*)
(***************************************************************************)
MaxScaleUpdates == 3

\* the options a caller sets: disabled, the defaults enabled, a range below 1.0,
\* an anisotropic range, and a minimum above 2.0
ScaleRangeInputs == { << Float2(ScaleUnit \div 2, ScaleUnit \div 2), OneScale >>, << Float2(ScaleUnit \div 4, ScaleUnit \div 4), Float2((3 * ScaleUnit) \div 4, (3 * ScaleUnit) \div 4) >>, << Float2(ScaleUnit \div 2, ScaleUnit \div 4), Float2(2 * ScaleUnit, ScaleUnit) >>, << Float2(3 * ScaleUnit, 3 * ScaleUnit), OneScale >> }
ScaleOptionInputs == { DefaultDynamicResolutionOptions } \cup { [ DefaultDynamicResolutionOptions EXCEPT !.enabled = TRUE, !.homogeneousScaling = h, !.minScale = r[1], !.maxScale = r[2] ] : h \in BOOLEAN, r \in ScaleRangeInputs }

\* measured frame time over the target with headroom, in units of 1/PidUnit
MeasuredRatios == { PidUnit \div 2, PidUnit, 2 * PidUnit }

InitScale == ConstructedView /\ ConstructedPicking /\ \E viewport \in Viewports : ConstructedResolution(TRUE, viewport)

\* Renderer calls updateScale once per frame
UpdateScaleCall(valid, measure) ==
    /\ scaleUpdates < MaxScaleUpdates
    /\ updateScale(valid, measure, DefaultKp)
    /\ scaleUpdates' = scaleUpdates + 1

NextScale ==
    \/ \E options \in ScaleOptionInputs : setDynamicResolutionOptions(options)
    \/ \E valid \in BOOLEAN, measure \in MeasuredRatios : UpdateScaleCall(valid, measure)

SpecScale == InitScale /\ [][NextScale]_vars

ScaleCalled == \E valid \in BOOLEAN, measure \in MeasuredRatios : UpdateScaleCall(valid, measure)

\* C16: after every call of updateScale, with dynamic resolution enabled each axis
\* of the internal scale lies within [minScale, maxScale] of the stored options;
\* with it disabled the internal scale and the returned scale are exactly 1.0.
C16_Original ==
    [][ScaleCalled =>
          IF mDynamicResolution.enabled
          THEN /\ mDynamicResolution.minScale.x <= mScale'.x
               /\ mScale'.x <= mDynamicResolution.maxScale.x
               /\ mDynamicResolution.minScale.y <= mScale'.y
               /\ mScale'.y <= mDynamicResolution.maxScale.y
          ELSE /\ mScale' = OneScale
               /\ roundedScale'.x.num = roundedScale'.x.den
               /\ roundedScale'.y.num = roundedScale'.y.den]_vars

\* a call of updateScale with FrameInfo::valid false
InvalidSampleCall == \E measure \in MeasuredRatios : UpdateScaleCall(FALSE, measure)

\* C18: with dynamic resolution enabled, a call of updateScale on an invalid frame
\* sample leaves the controller's error, integral, derivative and inhibition flag
\* unchanged, only clamps the scale into [minScale, maxScale], and leaves a scale
\* that is not outside those bounds.
C18_Original ==
    [][(InvalidSampleCall /\ mDynamicResolution.enabled) =>
          /\ mPidController' = mPidController
          /\ mScale' = Clamp2(mScale, mDynamicResolution.minScale, mDynamicResolution.maxScale)
          /\ mDynamicResolution.minScale.x <= mScale'.x
          /\ mScale'.x <= mDynamicResolution.maxScale.x
          /\ mDynamicResolution.minScale.y <= mScale'.y
          /\ mScale'.y <= mDynamicResolution.maxScale.y]_vars

\* the returned scale times the viewport dimension is a whole multiple of 8
ScalesToMultipleOf8(returned, dim) == (returned.num * dim) % (8 * returned.den) = 0

\* what the rounding promises on one axis
RoundedAsPromised(s, returned, dim) == IF s = ScaleUnit THEN returned.num = returned.den ELSE ScalesToMultipleOf8(returned, dim)

\* C19: for every call of updateScale, on each axis the returned scale times the
\* viewport dimension of that axis is an exact multiple of 8, except when the scale
\* on that axis is 1.0, in which case 1.0 is returned.
C19_Original ==
    [][ScaleCalled =>
          /\ RoundedAsPromised(mScale'.x, roundedScale'.x, mViewport.width)
          /\ RoundedAsPromised(mScale'.y, roundedScale'.y, mViewport.height)]_vars

(***************************************************************************)
(* A sustained overload: the options are set once, then every frame brings *)
(* a valid sample whose frame time is twice the target.  The renderer      *)
(* calls updateScale in every frame, hence the fairness condition.         *)
(***************************************************************************)
SustainedOptionInputs == { options \in ScaleOptionInputs : options.enabled /\ options.minScale.x <= 2 * ScaleUnit /\ options.minScale.y <= 2 * ScaleUnit }

InitSustained ==
    /\ ConstructedView
    /\ ConstructedPicking
    /\ mIsDynamicResolutionSupported = TRUE
    /\ mDynamicResolution \in { SanitizedOptions(options, TRUE) : options \in SustainedOptionInputs }
    /\ mViewport \in Viewports
    /\ mScale = OneScale
    /\ mPidController = [ integral |-> 0, lastError |-> 0, derivative |-> 0, integralInhibition |-> FALSE ]
    /\ roundedScale = AsReturned(OneScale)
    /\ scaleUpdates = 0

NextSustained == updateScale(TRUE, 2 * PidUnit, DefaultKp) /\ UNCHANGED scaleUpdates

SpecSustained == InitSustained /\ [][NextSustained]_vars /\ WF_vars(NextSustained)

ScaleArea(scale) == scale.x * scale.y

\* C20: with dynamic resolution enabled and every frame a valid sample at twice the
\* target, the area x*y of the internal scale never increases from one frame to the
\* next, and eventually both axes reach minScale and stay there.
C20_Original ==
    /\ [][ScaleArea(mScale') <= ScaleArea(mScale)]_vars
    /\ <>[](mScale = mDynamicResolution.minScale)

(***************************************************************************)
(* A sustained overload without homogeneous scaling: the frame time stays  *)
(* at one ratio above the target, the same in every frame.                 *)
(***************************************************************************)
\* measured frame time over the target, in units of 1/PidUnit: 1.25x, 1.5x, 1.75x, 2x
OverloadRatios == { (5 * PidUnit) \div 4, (3 * PidUnit) \div 2, (7 * PidUnit) \div 4, 2 * PidUnit }

\* homogeneous scaling off, maxScale 1.0, minScale 0.5 (the defaults) or 0.25
OverloadOptionInputs == { [ DefaultDynamicResolutionOptions EXCEPT !.enabled = TRUE, !.minScale = m ] : m \in { Float2(ScaleUnit \div 2, ScaleUnit \div 2), Float2(ScaleUnit \div 4, ScaleUnit \div 4) } }

InitOverload ==
    /\ ConstructedView
    /\ ConstructedPicking
    /\ mIsDynamicResolutionSupported = TRUE
    /\ mDynamicResolution \in { SanitizedOptions(options, TRUE) : options \in OverloadOptionInputs }
    /\ mViewport \in Viewports
    /\ mScale = OneScale
    /\ mPidController = [ integral |-> 0, lastError |-> 0, derivative |-> 0, integralInhibition |-> FALSE ]
    /\ roundedScale = AsReturned(OneScale)
    /\ scaleUpdates = 0

\* the first frame picks the ratio, every later frame repeats it (lastError keeps it)
OverloadedFrame(measure) ==
    /\ scaleUpdates = 0 \/ mPidController.lastError = PidUnit - measure
    /\ updateScale(TRUE, measure, DefaultKp)
    /\ scaleUpdates' = 1

NextOverload == \E measure \in OverloadRatios : OverloadedFrame(measure)

SpecOverload == InitOverload /\ [][NextOverload]_vars

\* View.cpp:213-217 and 227-228
MajorIsX == mViewport.width > mViewport.height
MajorOf(scale) == IF MajorIsX THEN scale.x ELSE scale.y
MinorOf(scale) == IF MajorIsX THEN scale.y ELSE scale.x
MaxMajorScale == (Min(mViewport.width, mViewport.height) * ScaleUnit) \div Max(mViewport.width, mViewport.height)

ScaleWithinRange ==
    /\ mDynamicResolution.minScale.x <= mScale.x
    /\ mScale.x <= mDynamicResolution.maxScale.x
    /\ mDynamicResolution.minScale.y <= mScale.y
    /\ mScale.y <= mDynamicResolution.maxScale.y

\* the arithmetic rounds: two scales this close, in units of 1/ScaleUnit, count as equal
RoundingSlack == 2
MaxMinorScale == Mul(MaxMajorScale, MaxMajorScale)

UnclampedScale(measure) == ScaledAxes(Mul(Mul(mScale.x, mScale.y), ScaleCommand(PidUpdate(mPidController, DefaultKp, measure).out)), mDynamicResolution.homogeneousScaling, mViewport)

\* the clamp of View.cpp:238 changes the scale a valid sample leads to
ClampChangesScale(measure) == Clamp2(UnclampedScale(measure), mDynamicResolution.minScale, mDynamicResolution.maxScale) # UnclampedScale(measure)

\* a call of updateScale that runs the controller
ControllerStep(measure) == mDynamicResolution.enabled /\ UpdateScaleCall(TRUE, measure)

\* C22: after every step of updateScale that ran the controller, integral inhibition
\* is enabled if and only if the clamp to [minScale, maxScale] changed the scale in
\* that step; in particular a controller step whose clamp changes nothing clears an
\* inhibition set by an earlier step.
C22_InhibitionIffClamped ==
    /\ [][\A measure \in MeasuredRatios : ControllerStep(measure) => (mPidController'.integralInhibition <=> ClampChangesScale(measure))]_vars
    /\ [][\A measure \in MeasuredRatios : (ControllerStep(measure) /\ mPidController.integralInhibition /\ ~ClampChangesScale(measure)) => ~mPidController'.integralInhibition]_vars

\* a frame at half the target was clamped at maxScale, the next one at twice the
\* target was not: the integral still holds the first error only, and accumulates again
C22_Witness ==
    /\ mDynamicResolution.enabled
    /\ scaleUpdates = 2
    /\ mPidController.integral = PidUnit \div 2
    /\ mPidController.lastError = -PidUnit
    /\ ~mPidController.integralInhibition
    /\ mScale.x < mDynamicResolution.maxScale.x

\* the renderables whose directional-shadow-caster bit is set
DirectionalShadowCasters == { i \in 0 .. (RenderableCount - 1) : MaskAt(i) \cap VISIBLE_DIR_SHADOW_RENDERABLE # {} }
SpotShadowCasters == { i \in 0 .. (RenderableCount - 1) : MaskAt(i) \cap VISIBLE_SPOT_SHADOW_RENDERABLE # {} }

\* C23: after partitioning, mVisibleDirectionalShadowCasters holds exactly the
\* renderables whose directional-shadow-caster bit is set (groups 2 and 3): every
\* index inside it has the bit and no renderable with the bit lies outside it,
\* whatever spot-shadow bits the renderables carry.
C23_DirectionalCastersRange ==
    AfterPartition =>
        /\ mVisibleDirectionalShadowCasters = Range(beginCasters, beginSpotLightCastersOnly)
        /\ RangeIndices(mVisibleDirectionalShadowCasters) = DirectionalShadowCasters
        /\ RangeIndices(mVisibleDirectionalShadowCasters) = GroupIndices(2) \cup GroupIndices(3)

\* groups 2 and 3 are both inhabited, a spot-shadow caster is inside the range and
\* another one outside it
C23_Witness ==
    /\ AfterPartition
    /\ GroupIndices(2) # {}
    /\ GroupIndices(3) # {}
    /\ SpotShadowCasters \cap RangeIndices(mVisibleDirectionalShadowCasters) # {}
    /\ SpotShadowCasters \ RangeIndices(mVisibleDirectionalShadowCasters) # {}

(***************************************************************************)
(* Picking: any order of pick, executePickingQueries and terminate, with   *)
(* the driver completing every readback it was handed.                     *)
(***************************************************************************)
ReadbackCompletes == \E i \in 1 .. MaxPickingQueries : CompleteReadback(i)

NextPicking ==
    \/ \E c \in PickCoordinates : pick(c.x, c.y)
    \/ \E scale \in StructureScales : executePickingQueries(scale)
    \/ ReadbackCompletes
    \/ terminate

SpecPicking == Init /\ [][NextPicking]_vars /\ WF_vars(ReadbackCompletes)

Occurrences(seq, q) == Cardinality({ i \in 1 .. Len(seq) : seq[i] = q })
CallbackCount(q) == Cardinality({ i \in 1 .. Len(callbackLog) : callbackLog[i].query = q })
ReadbackCount(q) == Cardinality({ i \in 1 .. Len(readPixels) : readPixels[i].query = q })
QueuedQueries == 1 .. Len(pickingQueries)

\* C24: in any order of pick, executePickingQueries and terminate, no callback is
\* invoked twice; every query is either still queued, or handed to the driver for
\* readback, or called back (so it leaves the list when it is processed); the list
\* is empty when executePickingQueries or terminate returns; and once the readback
\* of a query was issued, or terminate has run, the query's callback is invoked.
C24_CallbackExactlyOnce ==
    /\ [](\A q \in QueuedQueries : CallbackCount(q) <= 1)
    /\ [](\A q \in QueuedQueries : Occurrences(mActivePickingQueriesList, q) + ReadbackCount(q) + CallbackCount(q) = 1)
    /\ [][((\E scale \in StructureScales : executePickingQueries(scale)) \/ terminate) => mActivePickingQueriesList' = << >>]_vars
    /\ \A q \in 1 .. MaxPickingQueries : (q \in QueuedQueries /\ ReadbackCount(q) = 1) ~> (CallbackCount(q) = 1)
    /\ terminated ~> (\A q \in QueuedQueries : CallbackCount(q) = 1)

\* three queries, one called back after its readback and two by terminate, all once
C24_Witness ==
    /\ terminated
    /\ Len(pickingQueries) = MaxPickingQueries
    /\ readPixels = << >>
    /\ \E i \in 1 .. Len(callbackLog) : callbackLog[i].by = "readback"
    /\ Cardinality({ i \in 1 .. Len(callbackLog) : callbackLog[i].by = "terminate" }) >= 2
    /\ \A q \in QueuedQueries : CallbackCount(q) = 1


====
